---- MODULE Spec2Model ----
(***************************************************************************)
(* Client-side protocol logic of the E-Voting frontend: the voting page    *)
(* (blind signature request, anonymous cast-vote, receipt polling, session *)
(* countdown), the axios interceptors, the login page (identity, has-voted *)
(* check, OTP, session creation), the routed login page without OTP, the   *)
(* earlier voting page and its receipt poller, and the proof derivation.   *)
(*                                                                         *)
(* A React component is modelled by its state (what the setters wrote) and *)
(* by the last committed render (what the event handlers close over):      *)
(* a handler reads the rendered values, a setter writes the state, and     *)
(* Render commits the state.                                               *)
(***************************************************************************)
EXTENDS Integers, Sequences, FiniteSets, TLC

\* ------------------------------------------------------------------ bounds
MaxCalls == 2          \* invocations of handleVote on one page
ExpiryAt == 2          \* the second at which the session expires
PollCap == 17          \* interval ticks explored per poller
MaxPending == 2        \* receipt requests in flight per poller
MaxSubmits == 2        \* submissions of the identity form
MaxOtpSends == 2       \* send-otp requests (first send and resends)
ClockStep == 45        \* seconds between two observations of the OTP countdown
LoginHorizon == 630    \* seconds of the login page explored
MaxRuns == 2           \* concurrent runs of generateVoterProofs
DigestBytes == 2       \* width of the digest, in bytes
MaxVerifies == 3       \* submissions of the verify form

\* ------------------------------------------------------- program constants
maxAttempts == 15      \* fetchReceipt: const maxAttempts = 15
TokenWindow == 120     \* handleVote: 2 * 60 * 1000 ms, in seconds
ResendLock == 540      \* VoterLogin: disabled={isResendingOTP || otpTimer > 540}
DefaultExpiryMinutes == 10   \* handleSendOTP: expiryMinutes || 10

\* ------------------------------------------------------------------ values
Null == "null"
Candidates == {"c1", "c2"}
ElectionId == "e1"
Calls == 1..MaxCalls
Credentials == {"credA", "credB"}
NoTime == -1
MaxTime == ExpiryAt

\* The session handed over by the login page in location.state.
SessionID == "sess1"
AuthToken == "jwt1"

\* location.state.user: the ProofSet the login page put there.
User == [name |-> "n1", voterProof |-> "proof1", hashedAadhaar |-> "ha1",
         hashedVoterID |-> "hv1", hashedName |-> "hn1"]
ProofSetFields == {"hashedAadhaar", "hashedVoterID", "hashedName", "voterProof"}
ProofSetValues == {User.voterProof, User.hashedAadhaar, User.hashedVoterID, User.hashedName}

VARIABLES
    variant,         \* which VotingDashboard is mounted: "blind" | "legacy"
    page,            \* router location: "vote" | "login"
    exitCause,       \* why the voting page was left
    sessionExpiry,   \* location.state.sessionExpiry (NoTime: absent)
    sessionStorage,  \* the items authToken, sessionID and sessionExpiry
    now,             \* Date.now(), in seconds
    timerOn,         \* the session countdown interval is armed
    st,              \* the component's state (useState cells)
    view,            \* the cells as last rendered (closed over by handlers)
    calls,           \* the invocations of handleVote
    poll,            \* the receipt pollers, one per fetchReceipt call
    login,           \* VoterLogin's state (useState cells)
    loginView,       \* VoterLogin's cells as last rendered
    otpInterval,     \* the expiry the armed OTP countdown closes over
    lcalls,          \* the running handlers of the login page
    lflow,           \* the login flow: its counters, credential and check result
    otpCall,         \* the running handleVerifyOTP
    locationState,   \* what navigate('/vote') passed: "session" | "user" | "none"
    proofs,          \* the runs of generateVoterProofs
    verify           \* the verify form and the ledger's token

dashVars == <<variant, page, exitCause, sessionExpiry, sessionStorage, now, timerOn,
              st, view, calls, poll>>
loginVars == <<login, loginView, otpInterval, lcalls, lflow, otpCall, locationState>>
vars == <<dashVars, loginVars, proofs, verify>>

\* What the voting page leaves alone, and what the login page leaves alone.
offDashboard == <<loginVars, proofs, verify>>
offLogin == <<variant, page, exitCause, sessionExpiry, timerOn, st, view, calls, poll,
              proofs, verify, otpCall, locationState>>
\* What handleVerifyOTP leaves alone.
offSession == <<variant, exitCause, now, st, view, calls, poll, proofs, verify,
                otpInterval, lcalls, locationState>>

\* --------------------------------------- the other pages' initial states
\* VoterLogin's cells after useState: the typed credential (aadhaar and
\* voterId), the verified identity, the modal and step flags, the entered
\* code, the OTP expiry and the countdown display, and the election chosen.
LoginState ==
    [cred |-> Null, selectedElection |-> Null, verifiedIdentity |-> <<>>, showIdentityModal |-> FALSE,
     isLoading |-> FALSE, isSendingOTP |-> FALSE, isResendingOTP |-> FALSE,
     showOTPStep |-> FALSE, otp |-> "", otpExpiry |-> NoTime, otpTimer |-> 0,
     error |-> "", isCreatingSession |-> FALSE, sessionID |-> Null,
     authToken |-> Null]

\* A handler of the login page that is not running.
IdleCall == [pc |-> "idle", cred |-> Null, identity |-> <<>>]

\* handleVerifyOTP not running: its position, the credential, code and
\* identity it closed over, what verify-otp and create-session answered, and
\* the requests it issued.
IdleOtpCall ==
    [pc |-> "idle", cred |-> Null, election |-> Null, identity |-> <<>>, otpVerified |-> FALSE,
     sessionCreated |-> FALSE, expiresAt |-> NoTime, reqs |-> <<>>]

LoginIdle ==
    /\ login = LoginState
    /\ loginView = LoginState
    /\ otpInterval = NoTime
    /\ lcalls = [verify |-> IdleCall, send |-> IdleCall, resend |-> IdleCall]
    /\ lflow = [submits |-> 0, sends |-> 0, cred |-> Null, reported |-> FALSE]
    /\ otpCall = IdleOtpCall

\* No derivation of proofs is running.
ProofsIdle == proofs = <<>>

\* The verify form is not mounted.
VerifyIdle == verify = <<>>


\* ------------------------------------------------------------ crypto.js
\* A JavaScript string is the sequence of its code points.  The identifiers
\* of the model as strings.
CodePoints(id) ==
    CASE id = "e1" -> <<101, 49>>
      [] id = "c1" -> <<99, 49>>
      [] id = "c2" -> <<99, 50>>

\* String(n) of a non-negative integer: its decimal digits.
RECURSIVE toDecimal(_)
toDecimal(n) ==
    IF n < 10 THEN <<48 + n>> ELSE toDecimal(n \div 10) \o <<48 + (n % 10)>>

\* JSON.stringify(voteData):
\* {"election":"<id>","candidate":"<id>","timestamp":<number>}
JSONstringify(voteData) ==
    <<123, 34, 101, 108, 101, 99, 116, 105, 111, 110, 34, 58, 34>>
    \o CodePoints(voteData.election)
    \o <<34, 44, 34, 99, 97, 110, 100, 105, 100, 97, 116, 101, 34, 58, 34>>
    \o CodePoints(voteData.candidate)
    \o <<34, 44, 34, 116, 105, 109, 101, 115, 116, 97, 109, 112, 34, 58>>
    \o toDecimal(voteData.timestamp)
    \o <<125>>

\* btoa(s): base64 of the bytes of a binary string, three bytes to four
\* characters of A-Z, a-z, 0-9, +, /, padded with '='.
RECURSIVE btoa(_)
btoa(s) ==
    IF s = <<>> THEN <<>>
    ELSE LET B64Char(x) ==
                 IF x < 26 THEN 65 + x
                 ELSE IF x < 52 THEN 71 + x
                 ELSE IF x < 62 THEN x - 4
                 ELSE IF x = 62 THEN 43 ELSE 47
             n  == Len(s)
             b1 == s[1]
             b2 == IF n >= 2 THEN s[2] ELSE 0
             b3 == IF n >= 3 THEN s[3] ELSE 0
         IN  << B64Char(b1 \div 4),
                B64Char((b1 % 4) * 16 + (b2 \div 16)),
                IF n >= 2 THEN B64Char((b2 % 16) * 4 + (b3 \div 64)) ELSE 61,
                IF n >= 3 THEN B64Char(b3 % 64) ELSE 61 >>
             \o btoa(SubSeq(s, 4, n))

\* atob(b): the bytes a base64 string stands for.
RECURSIVE atob(_)
atob(b) ==
    IF Len(b) < 4 THEN <<>>
    ELSE LET B64Value(c) ==
                 IF c >= 65 /\ c <= 90 THEN c - 65
                 ELSE IF c >= 97 /\ c <= 122 THEN c - 71
                 ELSE IF c >= 48 /\ c <= 57 THEN c + 4
                 ELSE IF c = 43 THEN 62 ELSE 63
             v1 == B64Value(b[1])
             v2 == B64Value(b[2])
             v3 == IF b[3] = 61 THEN 0 ELSE B64Value(b[3])
             v4 == IF b[4] = 61 THEN 0 ELSE B64Value(b[4])
         IN  << v1 * 4 + (v2 \div 16) >>
             \o (IF b[3] = 61 THEN <<>> ELSE << (v2 % 16) * 16 + (v3 \div 4) >>)
             \o (IF b[4] = 61 THEN <<>> ELSE << (v3 % 4) * 64 + v4 >>)
             \o atob(SubSeq(b, 5, Len(b)))

createBlindedVote(electionId, candidateId, t) ==
    btoa(JSONstringify([election |-> electionId, candidate |-> candidateId,
                        timestamp |-> t]))

\* generateVoteID / generateNonce: 16 fresh random bytes, here the number of
\* the invocation that drew them.
generateVoteID(i) == <<"VOTE", i>>
generateNonce(i) == <<"nonce", i>>
generateBatchID(t) == <<"BATCH", t>>

\* ------------------------------------------------------------ api/client.js
\* Request interceptor: the Authorization header of a request, read from
\* sessionStorage when the request is sent (Null: no header).
requestInterceptor(storage) == storage.authToken

\* Response interceptor: a 401 removes authToken and sessionID.
responseInterceptor(res, storage) ==
    IF res.status = 401 THEN [storage EXCEPT !.authToken = Null, !.sessionID = Null]
    ELSE storage

\* ------------------------------------------------- the election authority
\* What the authority signs: the blinded vote it was sent.
Sign(b) == [signed |-> b]

\* A response body.  An absent field is <<>>, a present one <<value>>.
Body(success, message, blindSignature, verificationToken, data) ==
    [success |-> success, message |-> message, blindSignature |-> blindSignature,
     verificationToken |-> verificationToken, data |-> data]
Data(blindSignature, verificationToken) ==
    [blindSignature |-> blindSignature, verificationToken |-> verificationToken]
NoBody == Body(FALSE, <<>>, <<>>, <<>>, <<>>)

\* The replies to POST /ec/request-blind-signature for blinded vote b.
\* status 0: the request got no response.
SigResponses(b) ==
    { [status |-> 200, body |-> Body(TRUE, <<>>, <<Sign(b)>>, <<>>, <<>>)],
      [status |-> 200, body |-> Body(TRUE, <<>>, <<>>, <<>>, <<Data(<<Sign(b)>>, <<>>)>>)],
      [status |-> 200, body |-> Body(TRUE, <<>>, <<>>, <<>>, <<>>)],
      [status |-> 200, body |-> Body(TRUE, <<>>, <<>>, <<>>, <<Data(<<>>, <<>>)>>)],
      [status |-> 200, body |-> Body(FALSE, <<"Voter has already voted">>, <<>>, <<>>, <<>>)],
      [status |-> 401, body |-> Body(FALSE, <<"Invalid or expired session">>, <<>>, <<>>, <<>>)],
      [status |-> 0, body |-> NoBody] }

\* The replies to POST /votes.
CastResponses ==
    { [status |-> 200, body |-> Body(TRUE, <<>>, <<>>, <<"vt1">>, <<>>)],
      [status |-> 200, body |-> Body(TRUE, <<>>, <<>>, <<>>, <<Data(<<>>, <<"vt1">>)>>)],
      [status |-> 200, body |-> Body(TRUE, <<>>, <<>>, <<>>, <<>>)],
      [status |-> 200, body |-> NoBody],
      [status |-> 401, body |-> Body(FALSE, <<"Invalid or expired session">>, <<>>, <<>>, <<>>)],
      [status |-> 0, body |-> NoBody] }

\* What a reply to the signature request is, by the contract of the call:
\* a success carries success=true, anything else is a failure.
SigReply(res) ==
    IF res.status = 200 /\ res.body.success THEN "success"
    ELSE IF res.status = 200 THEN "declined"
    ELSE IF res.status = 0 THEN "network" ELSE "rejected"

\* err.message of the error axios raises for a reply.
AxiosMessage(res) ==
    IF res.status = 0 THEN "Network Error" ELSE "Request failed"

\* err.response?.data?.message || err.message || 'Vote failed'
VoteErrorText(res) ==
    IF res.status # 0 /\ res.body.message # <<>> THEN res.body.message[1]
    ELSE AxiosMessage(res)

\* ----------------------------------------------------------- initial state
InitState ==
    [selectedCandidate |-> Null, isVoting |-> FALSE, voteSuccess |-> FALSE,
     error |-> "", isRequestingSignature |-> FALSE, blindSignature |-> <<>>,
     verificationToken |-> Null, verificationExpiry |-> NoTime, voteID |-> <<>>,
     receipt |-> Null, isPollingReceipt |-> FALSE, sessionTimeRemaining |-> NoTime]

\* The cells the event handlers and the JSX conditions read.
Rendered(s) ==
    [selectedCandidate |-> s.selectedCandidate, isVoting |-> s.isVoting,
     voteSuccess |-> s.voteSuccess]

NewCall == [pc |-> "new", cand |-> Null, t0 |-> 0, reqs |-> <<>>, sig |-> "none"]
\* An invocation that ended in the catch block leaves nothing behind but the
\* state it set.
EndedCall == [NewCall EXCEPT !.pc = "failed"]
NewPoll == [active |-> FALSE, attempts |-> 0, pending |-> 0, started |-> FALSE,
            timedOut |-> FALSE, key |-> <<>>]

InitPage(v) ==
    /\ variant = v
    /\ page = "vote"
    /\ exitCause = "none"
    /\ sessionExpiry \in {NoTime, ExpiryAt}
    /\ sessionStorage = [authToken |-> AuthToken, sessionID |-> SessionID,
                        sessionExpiry |-> sessionExpiry]
    /\ now = 0
    /\ timerOn = (sessionExpiry # NoTime)
    /\ st = InitState
    /\ view = Rendered(InitState)
    /\ calls = [i \in Calls |-> NewCall]
    /\ poll = [i \in Calls |-> NewPoll]
    /\ LoginIdle /\ ProofsIdle /\ VerifyIdle
    /\ locationState = IF v = "blind" THEN "session" ELSE "user"

\* The voting page is not mounted.
DashboardIdle ==
    /\ variant = "blind"
    /\ page = "login"
    /\ exitCause = "none"
    /\ sessionExpiry = NoTime
    /\ sessionStorage = [authToken |-> Null, sessionID |-> Null,
                        sessionExpiry |-> NoTime]
    /\ now = 0
    /\ timerOn = FALSE
    /\ st = InitState
    /\ view = Rendered(InitState)
    /\ calls = [i \in Calls |-> NewCall]
    /\ poll = [i \in Calls |-> NewPoll]
    /\ locationState = "none"

Init == InitPage("blind")

\* A setter called after the component was unmounted changes nothing.
Set(s) == IF page = "vote" THEN s ELSE st

\* The next unused invocation.
Fresh(i) == calls[i].pc = "new" /\ \A j \in Calls : j < i => calls[j].pc # "new"

\* ------------------------------------------------- VotingDashboard.jsx
\* The page renders its controls only with user, election and sessionID.
\* Candidate card: onClick={() => !voteSuccess && setSelectedCandidate(id)}
setSelectedCandidate(c) ==
    /\ page = "vote"
    /\ ~view.voteSuccess
    /\ st.selectedCandidate # c
    /\ st' = [st EXCEPT !.selectedCandidate = c]
    /\ UNCHANGED offDashboard
    /\ UNCHANGED <<variant, page, exitCause, sessionExpiry, sessionStorage, now,
                   timerOn, view, calls, poll>>

\* React commits the pending state: the handlers of the next render close
\* over the new values.
Render ==
    /\ page = "vote"
    /\ view # Rendered(st)
    /\ view' = Rendered(st)
    /\ UNCHANGED offDashboard
    /\ UNCHANGED <<variant, page, exitCause, sessionExpiry, sessionStorage, now,
                   timerOn, st, calls, poll>>

\* The body of POST /ec/request-blind-signature.
signatureRequest(i, cand, t) ==
    [url |-> "/ec/request-blind-signature",
     body |-> [sessionID |-> SessionID,
               blindedVote |-> createBlindedVote(ElectionId, cand, t),
               nonce |-> generateNonce(i)],
     bearer |-> requestInterceptor(sessionStorage)]

\* The body of POST /votes with the candidate selected when the request is
\* built instead of the one the submission captured.
votePayloadSelected(i, cand, sig, t) ==
    [voteID |-> generateVoteID(i), electionId |-> ElectionId,
     candidateId |-> st.selectedCandidate,
     blindSignature |-> sig, batchID |-> generateBatchID(t)]

\* The body of POST /votes.
votePayload(i, cand, sig, t) ==
    [voteID |-> generateVoteID(i), electionId |-> ElectionId, candidateId |-> cand,
     blindSignature |-> sig, batchID |-> generateBatchID(t)]

voteRequest(i, cand, sig, t, storage) ==
    [url |-> "/votes", body |-> votePayload(i, cand, sig, t),
     bearer |-> requestInterceptor(storage)]

\* The Confirm Vote button is rendered when a candidate is selected and the
\* vote has not succeeded, and is disabled while isVoting.
VoteButtonEnabled ==
    /\ page = "vote"
    /\ view.selectedCandidate # Null
    /\ ~view.voteSuccess
    /\ ~view.isVoting

\* handleVote up to its first await: the guard, the crypto components, the
\* blinded vote and the signature request.
handleVote(i) ==
    /\ variant = "blind"
    /\ VoteButtonEnabled
    /\ Fresh(i)
    /\ ~(view.selectedCandidate = Null \/ view.isVoting)
    /\ st' = [st EXCEPT !.isVoting = TRUE, !.error = "", !.isRequestingSignature = TRUE]
    /\ calls' = [calls EXCEPT ![i] =
            [@ EXCEPT !.pc = "sig", !.cand = view.selectedCandidate, !.t0 = now,
                      !.reqs = <<signatureRequest(i, view.selectedCandidate, now)>>]]
    /\ UNCHANGED offDashboard
    /\ UNCHANGED <<variant, page, exitCause, sessionExpiry, sessionStorage, now,
                   timerOn, view, poll>>

\* Caught with a fixed text in place of the error's message.
CaughtGeneric(s, text) ==
    [s EXCEPT !.error = "Vote failed", !.isRequestingSignature = FALSE, !.isVoting = FALSE]

\* Caught without the finally block.
CaughtStillVoting(s, text) ==
    [s EXCEPT !.error = text, !.isRequestingSignature = FALSE]

\* catch (err) { setError(...); setIsRequestingSignature(false) } finally
\* { setIsVoting(false) }
Caught(s, text) ==
    [s EXCEPT !.error = text, !.isRequestingSignature = FALSE, !.isVoting = FALSE]

\* sigRes.data.data || sigRes.data
NestedOrFlat(body) == IF body.data # <<>> THEN body.data[1] ELSE body

\* handleVote from the signature response to the cast-vote request.
handleVote_signature(i, res) ==
    /\ calls[i].pc = "sig"
    /\ res \in SigResponses(calls[i].reqs[1].body.blindedVote)
    /\ sessionStorage' = responseInterceptor(res, sessionStorage)
    /\ \/ /\ res.status # 200
          /\ st' = Set(Caught(st, VoteErrorText(res)))
          /\ calls' = [calls EXCEPT ![i] = EndedCall]
       \/ /\ res.status = 200
          /\ ~res.body.success
          /\ st' = Set(Caught(st, IF res.body.message # <<>> THEN res.body.message[1]
                                  ELSE "Blind signature request failed"))
          /\ calls' = [calls EXCEPT ![i] = EndedCall]
       \/ /\ res.status = 200
          /\ res.body.success
          /\ NestedOrFlat(res.body).blindSignature = <<>>
          /\ st' = Set(Caught(st, "Backend error: Blind signature not returned"))
          /\ calls' = [calls EXCEPT ![i] = EndedCall]
       \/ /\ res.status = 200
          /\ res.body.success
          /\ NestedOrFlat(res.body).blindSignature # <<>>
          /\ LET sig == NestedOrFlat(res.body).blindSignature[1] IN
             /\ st' = Set([st EXCEPT !.blindSignature = <<sig>>,
                                     !.isRequestingSignature = FALSE])
             /\ calls' = [calls EXCEPT ![i] =
                    [@ EXCEPT !.pc = "cast", !.sig = SigReply(res),
                              !.reqs = Append(@, voteRequest(i, calls[i].cand, sig,
                                                   calls[i].t0, sessionStorage'))]]
    /\ UNCHANGED offDashboard
    /\ UNCHANGED <<variant, page, exitCause, sessionExpiry, now, timerOn, view, poll>>

\* handleVote from the cast-vote response to its end; on success it stores
\* the verification token, sets voteSuccess and calls fetchReceipt.
handleVote_cast(i, res) ==
    /\ calls[i].pc = "cast"
    /\ res \in CastResponses
    /\ sessionStorage' = responseInterceptor(res, sessionStorage)
    /\ \/ /\ res.status # 200
          /\ st' = Set(Caught(st, VoteErrorText(res)))
          /\ calls' = [calls EXCEPT ![i] = EndedCall]
          /\ poll' = poll
       \/ /\ res.status = 200
          /\ ~res.body.success
          /\ st' = Set(Caught(st, IF res.body.message # <<>> THEN res.body.message[1]
                                  ELSE "Vote submission failed"))
          /\ calls' = [calls EXCEPT ![i] = EndedCall]
          /\ poll' = poll
       \/ /\ res.status = 200
          /\ res.body.success
          /\ LET token == NestedOrFlat(res.body).verificationToken
                 s1 == IF token # <<>>
                       THEN [st EXCEPT !.verificationToken = token[1],
                                       !.verificationExpiry = now + TokenWindow]
                       ELSE st
             IN st' = Set([s1 EXCEPT !.voteID = <<generateVoteID(i)>>,
                                     !.voteSuccess = TRUE,
                                     !.isPollingReceipt = TRUE,
                                     !.isVoting = FALSE])
          /\ calls' = [calls EXCEPT ![i].pc = "ok"]
          /\ poll' = [poll EXCEPT ![i] = [@ EXCEPT !.active = TRUE, !.started = TRUE,
                                         !.key = [electionId |-> ElectionId,
                                                   generatedVoteID |-> generateVoteID(i)]]]
    /\ UNCHANGED offDashboard
    /\ UNCHANGED <<variant, page, exitCause, sessionExpiry, now, timerOn, view>>

\* Leaving the page unmounts the component: the effect cleanup clears the
\* session countdown interval.
Leave(cause) ==
    /\ page' = "login"
    /\ exitCause' = cause
    /\ timerOn' = FALSE

\* Math.max(0, Math.floor((expiry - now) / 1000))
Remaining(expiry, t) == IF expiry - t > 0 THEN expiry - t ELSE 0

\* The session countdown interval fires, one second after the last time: it
\* stores the remaining time and at 0 clears itself, alerts and navigates to
\* the login page.  Without sessionExpiry the effect arms no interval.
sessionTimer ==
    /\ page = "vote"
    /\ timerOn
    /\ now < MaxTime
    /\ now' = now + 1
    /\ \/ /\ Remaining(sessionExpiry, now') > 0
          /\ st' = [st EXCEPT !.sessionTimeRemaining = Remaining(sessionExpiry, now')]
          /\ UNCHANGED <<page, exitCause, timerOn>>
       \/ /\ Remaining(sessionExpiry, now') = 0
          /\ st' = [st EXCEPT !.sessionTimeRemaining = 0]
          /\ Leave("expired")
    /\ UNCHANGED offDashboard
    /\ UNCHANGED <<variant, sessionExpiry, sessionStorage, view, calls, poll>>

\* Header back button: removes authToken and sessionID, navigates to '/'.
logout ==
    /\ variant = "blind"
    /\ page = "vote"
    /\ sessionStorage' = [sessionStorage EXCEPT !.authToken = Null, !.sessionID = Null]
    /\ Leave("logout")
    /\ UNCHANGED offDashboard
    /\ UNCHANGED <<variant, sessionExpiry, now, st, view, calls, poll>>

\* Return to Home in the success modal: the same.
returnHome ==
    /\ variant = "blind"
    /\ page = "vote"
    /\ view.voteSuccess
    /\ sessionStorage' = [sessionStorage EXCEPT !.authToken = Null, !.sessionID = Null]
    /\ Leave("home")
    /\ UNCHANGED offDashboard
    /\ UNCHANGED <<variant, sessionExpiry, now, st, view, calls, poll>>

\* The replies to GET /votes/receipt/:electionId/:voteID.
ReceiptResponses ==
    { [status |-> 200, success |-> TRUE], [status |-> 200, success |-> FALSE],
      [status |-> 404, success |-> FALSE], [status |-> 401, success |-> FALSE],
      [status |-> 0, success |-> FALSE] }

\* fetchReceipt's interval callback up to its await: attempts++ and the
\* receipt request GET /votes/receipt/<key>, the key being the arguments
\* fetchReceipt was called with.
fetchReceipt_tick(i) ==
    /\ poll[i].active
    /\ poll[i].attempts < PollCap
    /\ poll[i].pending < MaxPending
    /\ poll' = [poll EXCEPT ![i] = [@ EXCEPT !.attempts = @ + 1, !.pending = @ + 1]]
    /\ UNCHANGED offDashboard
    /\ UNCHANGED <<variant, page, exitCause, sessionExpiry, sessionStorage, now,
                   timerOn, st, view, calls>>

\* The budget test with a budget of one attempt.
FirstAttempt(p) == p.attempts >= 1

\* if (attempts >= maxAttempts), in the catch block.
BudgetExhausted(p) == p.attempts >= maxAttempts

\* fetchReceipt's interval callback after the await.
fetchReceipt_reply(i, res) ==
    /\ poll[i].pending > 0
    /\ res \in ReceiptResponses
    /\ sessionStorage' = responseInterceptor(res, sessionStorage)
    /\ \/ /\ res.status = 200
          /\ res.success
          /\ poll' = [poll EXCEPT ![i] = [@ EXCEPT !.pending = @ - 1, !.active = FALSE]]
          /\ st' = Set([st EXCEPT !.receipt = "receipt", !.isPollingReceipt = FALSE])
       \/ /\ res.status = 200
          /\ ~res.success
          /\ poll' = [poll EXCEPT ![i].pending = @ - 1]
          /\ st' = st
       \/ /\ res.status # 200
          /\ BudgetExhausted(poll[i])
          /\ poll' = [poll EXCEPT ![i] = [@ EXCEPT !.pending = @ - 1, !.active = FALSE,
                                                   !.timedOut = TRUE]]
          /\ st' = Set([st EXCEPT !.isPollingReceipt = FALSE,
                   !.error = "Receipt not available. Your vote was recorded but receipt generation timed out."])
       \/ /\ res.status # 200
          /\ ~BudgetExhausted(poll[i])
          /\ poll' = [poll EXCEPT ![i].pending = @ - 1]
          /\ st' = st
    /\ UNCHANGED offDashboard
    /\ UNCHANGED <<variant, page, exitCause, sessionExpiry, now, timerOn, view, calls>>

Next ==
    \/ \E c \in Candidates : setSelectedCandidate(c)
    \/ Render
    \/ \E i \in Calls : handleVote(i)
    \/ \E i \in {j \in Calls : calls[j].pc = "sig"} :
          \E res \in SigResponses(calls[i].reqs[1].body.blindedVote) :
            handleVote_signature(i, res)
    \/ \E i \in Calls : \E res \in CastResponses : handleVote_cast(i, res)
    \/ sessionTimer
    \/ logout
    \/ returnHome

Spec == Init /\ [][Next]_vars

\* ------------------------------------------------------- receipt polling
\* The page right after handleVote ended with an acknowledged vote for
\* candidate c cast at second 0: voteSuccess is set but not yet rendered, and
\* fetchReceipt has armed its interval.
AckedCall(c) ==
    [pc |-> "ok", cand |-> c, t0 |-> 0, sig |-> "success",
     reqs |-> << [url |-> "/ec/request-blind-signature",
                  body |-> [sessionID |-> SessionID,
                            blindedVote |-> createBlindedVote(ElectionId, c, 0),
                            nonce |-> generateNonce(1)],
                  bearer |-> AuthToken],
                 [url |-> "/votes",
                  body |-> votePayload(1, c, Sign(createBlindedVote(ElectionId, c, 0)), 0),
                  bearer |-> AuthToken] >>]

AckedState(c) ==
    [InitState EXCEPT !.selectedCandidate = c, !.voteSuccess = TRUE,
                      !.blindSignature = <<Sign(createBlindedVote(ElectionId, c, 0))>>,
                      !.verificationToken = "vt1", !.verificationExpiry = TokenWindow,
                      !.voteID = <<generateVoteID(1)>>, !.isPollingReceipt = TRUE]

InitReceipt ==
    /\ variant = "blind"
    /\ page = "vote"
    /\ exitCause = "none"
    /\ sessionExpiry \in {NoTime, ExpiryAt}
    /\ sessionStorage = [authToken |-> AuthToken, sessionID |-> SessionID,
                        sessionExpiry |-> sessionExpiry]
    /\ now = 0
    /\ timerOn = (sessionExpiry # NoTime)
    /\ st = AckedState("c1")
    /\ view = [selectedCandidate |-> "c1", isVoting |-> TRUE, voteSuccess |-> FALSE]
    /\ calls = [i \in Calls |-> IF i = 1 THEN AckedCall("c1") ELSE NewCall]
    /\ poll = [i \in Calls |-> IF i = 1 THEN [NewPoll EXCEPT !.active = TRUE, !.started = TRUE,
                                   !.key = [electionId |-> ElectionId,
                                            generatedVoteID |-> generateVoteID(1)]]
                                ELSE NewPoll]
    /\ LoginIdle /\ ProofsIdle /\ VerifyIdle
    /\ locationState = "session"

NextReceipt ==
    \/ \E c \in Candidates : setSelectedCandidate(c)
    \/ Render
    \/ sessionTimer
    \/ logout
    \/ returnHome
    \/ \E i \in Calls : fetchReceipt_tick(i)
    \/ \E i \in Calls : \E res \in ReceiptResponses : fetchReceipt_reply(i, res)

SpecReceipt == InitReceipt /\ [][NextReceipt]_vars

\* The state SpecReceipt starts from is one Spec reaches.
ReceiptStartReached ==
    /\ st = AckedState("c1")
    /\ view = [selectedCandidate |-> "c1", isVoting |-> TRUE, voteSuccess |-> FALSE]
    /\ calls[1] = AckedCall("c1")
    /\ calls[2] = NewCall
    /\ poll[1] = [NewPoll EXCEPT !.active = TRUE, !.started = TRUE,
                                   !.key = [electionId |-> ElectionId,
                                            generatedVoteID |-> generateVoteID(1)]]
    /\ page = "vote" /\ now = 0
    /\ sessionStorage = [authToken |-> AuthToken, sessionID |-> SessionID,
                        sessionExpiry |-> sessionExpiry]

\* ------------------------------------- the earlier VotingDashboard page
\* Its handleVote posts the voter's proofs with the vote.
legacyPayload(cand) ==
    [electionId |-> ElectionId, candidateId |-> cand, voterProof |-> User.voterProof,
     hashedAadhaar |-> User.hashedAadhaar, hashedVoterID |-> User.hashedVoterID,
     hashedName |-> User.hashedName, location |-> "Chennai, India"]

legacy_handleVote(i) ==
    /\ variant = "legacy"
    /\ VoteButtonEnabled
    /\ Fresh(i)
    /\ ~(view.selectedCandidate = Null \/ view.isVoting)
    /\ st' = [st EXCEPT !.isVoting = TRUE, !.error = ""]
    /\ calls' = [calls EXCEPT ![i] =
            [@ EXCEPT !.pc = "cast", !.cand = view.selectedCandidate, !.t0 = now,
                      !.reqs = << [url |-> "/votes",
                                   body |-> legacyPayload(view.selectedCandidate),
                                   bearer |-> requestInterceptor(sessionStorage)] >>]]
    /\ UNCHANGED offDashboard
    /\ UNCHANGED <<variant, page, exitCause, sessionExpiry, sessionStorage, now,
                   timerOn, view, poll>>

\* The replies to the earlier page's POST /votes.
LegacyResponses ==
    { [status |-> 200, success |-> TRUE, aadhaarHash |-> <<User.hashedAadhaar>>],
      [status |-> 200, success |-> TRUE, aadhaarHash |-> <<>>],
      [status |-> 200, success |-> FALSE, aadhaarHash |-> <<>>],
      [status |-> 401, success |-> FALSE, aadhaarHash |-> <<>>],
      [status |-> 0, success |-> FALSE, aadhaarHash |-> <<>>] }

\* After the response: success sets voteSuccess and, with an aadhaarHash,
\* starts fetchReceipt; the failure branches call setVoteStatus, which the
\* component does not define, so only the finally block takes effect.
legacy_handleVote_cast(i, res) ==
    /\ variant = "legacy"
    /\ calls[i].pc = "cast"
    /\ res \in LegacyResponses
    /\ sessionStorage' = responseInterceptor(res, sessionStorage)
    /\ \/ /\ res.status = 200
          /\ res.success
          /\ res.aadhaarHash # <<>>
          /\ st' = Set([st EXCEPT !.voteSuccess = TRUE, !.isPollingReceipt = TRUE,
                                  !.isVoting = FALSE])
          /\ calls' = [calls EXCEPT ![i].pc = "ok"]
          /\ poll' = [poll EXCEPT ![i] = [@ EXCEPT !.active = TRUE, !.started = TRUE,
                                         !.key = [electionId |-> ElectionId,
                                                   aadhaarHash |-> res.aadhaarHash[1]]]]
       \/ /\ res.status = 200
          /\ res.success
          /\ res.aadhaarHash = <<>>
          /\ st' = Set([st EXCEPT !.voteSuccess = TRUE, !.isVoting = FALSE])
          /\ calls' = [calls EXCEPT ![i].pc = "ok"]
          /\ poll' = poll
       \/ /\ ~(res.status = 200 /\ res.success)
          /\ st' = Set([st EXCEPT !.isVoting = FALSE])
          /\ calls' = [calls EXCEPT ![i] = EndedCall]
          /\ poll' = poll
    /\ UNCHANGED offDashboard
    /\ UNCHANGED <<variant, page, exitCause, sessionExpiry, now, timerOn, view>>

\* Both its back button and its Return to Home only navigate to '/'.
legacy_navigateHome ==
    /\ variant = "legacy"
    /\ page = "vote"
    /\ Leave("home")
    /\ UNCHANGED offDashboard
    /\ UNCHANGED <<variant, sessionExpiry, sessionStorage, now, st, view, calls, poll>>

InitLegacy == InitPage("legacy") /\ sessionExpiry = NoTime

NextLegacy ==
    \/ \E c \in Candidates : setSelectedCandidate(c)
    \/ Render
    \/ \E i \in Calls : legacy_handleVote(i)
    \/ \E i \in Calls : \E res \in LegacyResponses : legacy_handleVote_cast(i, res)
    \/ legacy_navigateHome

\* The earlier page up to the start of its receipt poller; the poller itself
\* is the same interval and is explored by SpecReceipt.
SpecLegacy == InitLegacy /\ [][NextLegacy]_vars

\* The earlier page right after handleVote ended with an acknowledged vote for
\* candidate c, the reply holding aadhaarHash: fetchReceipt has armed its
\* interval.
InitLegacyReceipt ==
    /\ variant = "legacy"
    /\ page = "vote"
    /\ exitCause = "none"
    /\ sessionExpiry = NoTime
    /\ sessionStorage = [authToken |-> AuthToken, sessionID |-> SessionID,
                        sessionExpiry |-> sessionExpiry]
    /\ now = 0
    /\ timerOn = FALSE
    /\ \E c \in Candidates :
          /\ st = [InitState EXCEPT !.selectedCandidate = c, !.voteSuccess = TRUE,
                                    !.isPollingReceipt = TRUE]
          /\ view = [selectedCandidate |-> c, isVoting |-> TRUE, voteSuccess |-> FALSE]
          /\ calls = [i \in Calls |->
                IF i = 1
                THEN [NewCall EXCEPT !.pc = "ok", !.cand = c,
                          !.reqs = << [url |-> "/votes", body |-> legacyPayload(c),
                                       bearer |-> AuthToken] >>]
                ELSE NewCall]
    /\ poll = [i \in Calls |->
          IF i = 1 THEN [NewPoll EXCEPT !.active = TRUE, !.started = TRUE,
                                        !.key = [electionId |-> ElectionId,
                                                aadhaarHash |-> User.hashedAadhaar]]
          ELSE NewPoll]
    /\ LoginIdle /\ ProofsIdle /\ VerifyIdle
    /\ locationState = "user"

NextLegacyReceipt ==
    \/ \E c \in Candidates : setSelectedCandidate(c)
    \/ Render
    \/ legacy_navigateHome
    \/ \E i \in Calls : fetchReceipt_tick(i)
    \/ \E i \in Calls : \E res \in ReceiptResponses : fetchReceipt_reply(i, res)

\* The receipt poller of the earlier page.
SpecLegacyReceipt == InitLegacyReceipt /\ [][NextLegacyReceipt]_vars

\* ------------------------------------------------- VoterLogin (OTP login)
\* The component's cells as a handler leaves them when it returns or throws.
\* err.response?.data?.message || fallback
ErrorText(res, fallback) ==
    IF res.status # 0 /\ res.message # <<>> THEN res.message[1] ELSE fallback

\* The form of step 1 is on screen and not covered by the identity modal.
FormVisible ==
    /\ page = "login"
    /\ ~loginView.showOTPStep
    /\ ~(loginView.showIdentityModal /\ loginView.verifiedIdentity # <<>>)

\* {showIdentityModal && verifiedIdentity && ( ...modal... )}
ModalVisible ==
    /\ page = "login"
    /\ loginView.showIdentityModal
    /\ loginView.verifiedIdentity # <<>>

\* Resend button: disabled={isResendingOTP || otpTimer > 540}
ResendDisabled(v) == v.isResendingOTP \/ v.otpTimer > ResendLock

\* The Aadhaar and Voter ID inputs: onChange={(e) => setAadhaar(...)}.
setAadhaar(c) ==
    /\ FormVisible
    /\ login.cred # c
    /\ login' = [login EXCEPT !.cred = c]
    /\ UNCHANGED <<loginView, otpInterval, lcalls, lflow, now, sessionStorage>>
    /\ UNCHANGED offLogin

\* React commits the pending state and runs the OTP countdown effect: when
\* otpExpiry changed, the cleanup clears the old interval and, with an expiry
\* set, a new interval is armed that closes over it.
loginRender ==
    /\ page = "login"
    /\ loginView # login
    /\ loginView' = login
    /\ otpInterval' = IF login.otpExpiry # loginView.otpExpiry THEN login.otpExpiry
                      ELSE otpInterval
    /\ UNCHANGED <<login, lcalls, lflow, now, sessionStorage>>
    /\ UNCHANGED offLogin

\* ClockStep seconds pass with the OTP countdown armed: its interval callback
\* stores the remaining time and at 0 clears the interval.
otpCountdown ==
    /\ page = "login"
    /\ otpInterval # NoTime
    /\ now + ClockStep <= LoginHorizon
    /\ now' = now + ClockStep
    /\ login' = [login EXCEPT !.otpTimer = Remaining(otpInterval, now')]
    /\ otpInterval' = IF Remaining(otpInterval, now') = 0 THEN NoTime ELSE otpInterval
    /\ UNCHANGED <<loginView, lcalls, lflow, sessionStorage>>
    /\ UNCHANGED offLogin

\* handleVerifyIdentity up to its first await.
handleVerifyIdentity ==
    /\ FormVisible
    /\ ~(loginView.isLoading \/ loginView.isSendingOTP)
    /\ lcalls.verify.pc = "idle"
    /\ lflow.submits < MaxSubmits
    /\ \/ /\ loginView.cred = Null
          /\ login' = [login EXCEPT !.verifiedIdentity = <<>>,
                          !.error = "Please enter both Aadhaar and Voter ID"]
          /\ lcalls' = lcalls
       \/ /\ loginView.cred # Null
          /\ loginView.selectedElection = Null
          /\ login' = [login EXCEPT !.verifiedIdentity = <<>>,
                          !.error = "Please select an election to proceed"]
          /\ lcalls' = lcalls
       \/ /\ loginView.cred # Null
          /\ loginView.selectedElection # Null
          /\ login' = [login EXCEPT !.verifiedIdentity = <<>>, !.error = "",
                                    !.isLoading = TRUE]
          /\ lcalls' = [lcalls EXCEPT !.verify =
                            [pc |-> "verify", cred |-> loginView.cred, identity |-> <<>>]]
    /\ lflow' = [lflow EXCEPT !.submits = @ + 1, !.cred = loginView.cred,
                              !.reported = FALSE]
    /\ UNCHANGED <<loginView, otpInterval, now, sessionStorage>>
    /\ UNCHANGED offLogin

\* The replies to POST /identity/verify for credential c.
IdentityResponses(c) ==
    { [status |-> 200, success |-> TRUE, message |-> <<>>, data |-> <<[name |-> c]>>],
      [status |-> 200, success |-> FALSE, message |-> <<>>, data |-> <<>>],
      [status |-> 200, success |-> FALSE, message |-> <<"Voter not found">>, data |-> <<>>],
      [status |-> 404, success |-> FALSE, message |-> <<"Voter not found">>, data |-> <<>>],
      [status |-> 0, success |-> FALSE, message |-> <<>>, data |-> <<>>] }

\* handleVerifyIdentity after POST /identity/verify: on success the proofs
\* are derived and the has-voted check is requested.
handleVerifyIdentity_verify(res) ==
    /\ lcalls.verify.pc = "verify"
    /\ res \in IdentityResponses(lcalls.verify.cred)
    /\ sessionStorage' = responseInterceptor(res, sessionStorage)
    /\ \/ /\ res.status = 200
          /\ res.success
          /\ lcalls' = [lcalls EXCEPT !.verify.pc = "status", !.verify.identity = res.data]
          /\ login' = login
       \/ /\ res.status = 200
          /\ ~res.success
          /\ login' = [login EXCEPT !.isLoading = FALSE,
                 !.error = "Identity verification failed. Please check your details."]
          /\ lcalls' = [lcalls EXCEPT !.verify = IdleCall]
       \/ /\ res.status # 200
          /\ login' = [login EXCEPT !.isLoading = FALSE,
                 !.error = ErrorText(res, "Identity verification failed")]
          /\ lcalls' = [lcalls EXCEPT !.verify = IdleCall]
    /\ UNCHANGED <<loginView, otpInterval, lflow, now>>
    /\ UNCHANGED offLogin

\* The replies to GET /voters/:electionId/:voterProof.  hasVoted is placed
\* flat in the body or nested under data.
StatusResponses ==
    { [status |-> 200, success |-> TRUE, hasVoted |-> <<TRUE>>, data |-> <<>>, message |-> <<>>],
      [status |-> 200, success |-> TRUE, hasVoted |-> <<FALSE>>, data |-> <<>>, message |-> <<>>],
      [status |-> 200, success |-> TRUE, hasVoted |-> <<>>,
       data |-> <<[hasVoted |-> TRUE]>>, message |-> <<>>],
      [status |-> 200, success |-> FALSE, hasVoted |-> <<>>, data |-> <<>>, message |-> <<>>],
      [status |-> 500, success |-> FALSE, hasVoted |-> <<>>, data |-> <<>>, message |-> <<>>],
      [status |-> 0, success |-> FALSE, hasVoted |-> <<>>, data |-> <<>>, message |-> <<>>] }

\* The has-voted check reported hasVoted = true.
ReportsVoted(res) ==
    /\ res.status = 200
    /\ res.success
    /\ \/ res.hasVoted = <<TRUE>>
       \/ res.data # <<>> /\ res.data[1].hasVoted

\* voterStatusRes.data.success && voterStatusRes.data.hasVoted
ReadsVoted(res) == res.success /\ res.hasVoted = <<TRUE>>

\* handleVerifyIdentity after the has-voted check.
handleVerifyIdentity_status(res) ==
    /\ lcalls.verify.pc = "status"
    /\ res \in StatusResponses
    /\ sessionStorage' = responseInterceptor(res, sessionStorage)
    /\ lcalls' = [lcalls EXCEPT !.verify = IdleCall]
    /\ lflow' = [lflow EXCEPT !.reported = @ \/ ReportsVoted(res)]
    /\ \/ /\ res.status = 200
          /\ ReadsVoted(res)
          /\ login' = [login EXCEPT !.isLoading = FALSE,
                 !.error = "You have already voted in this election. Your vote has been recorded."]
       \/ /\ res.status = 200
          /\ ~ReadsVoted(res)
          /\ login' = [login EXCEPT !.verifiedIdentity = lcalls.verify.identity,
                                    !.showIdentityModal = TRUE, !.isLoading = FALSE]
       \/ /\ res.status # 200
          /\ login' = [login EXCEPT !.isLoading = FALSE,
                 !.error = ErrorText(res, "Identity verification failed")]
    /\ UNCHANGED <<loginView, otpInterval, now>>
    /\ UNCHANGED offLogin

\* Cancel in the identity modal: onClick={() => setShowIdentityModal(false)}
cancelIdentityModal ==
    /\ ModalVisible
    /\ login' = [login EXCEPT !.showIdentityModal = FALSE]
    /\ UNCHANGED <<loginView, otpInterval, lcalls, lflow, now, sessionStorage>>
    /\ UNCHANGED offLogin

\* handleSendOTP up to its await (the Send OTP button of the identity modal,
\* disabled={isSendingOTP}).
handleSendOTP ==
    /\ ModalVisible
    /\ ~loginView.isSendingOTP
    /\ lcalls.send.pc = "idle"
    /\ lflow.sends < MaxOtpSends
    /\ login' = [login EXCEPT !.showIdentityModal = FALSE, !.isSendingOTP = TRUE,
                              !.error = ""]
    /\ lcalls' = [lcalls EXCEPT !.send = [pc |-> "sent", cred |-> loginView.cred,
                                         identity |-> <<>>]]
    /\ lflow' = [lflow EXCEPT !.sends = @ + 1]
    /\ UNCHANGED <<loginView, otpInterval, now, sessionStorage>>
    /\ UNCHANGED offLogin

\* The replies to POST /identity/send-otp.  data is <<>> when the body has no
\* data object; expiryMinutes is <<>> where it is not held: under data, or
\* flat in the body.
OtpResponses ==
    { [status |-> 200, success |-> TRUE, message |-> <<>>, expiryMinutes |-> <<>>,
       data |-> <<[expiryMinutes |-> <<DefaultExpiryMinutes>>]>>],
      [status |-> 200, success |-> TRUE, message |-> <<>>, expiryMinutes |-> <<>>,
       data |-> <<[expiryMinutes |-> <<>>]>>],
      [status |-> 200, success |-> TRUE, message |-> <<>>,
       expiryMinutes |-> <<DefaultExpiryMinutes>>, data |-> <<>>],
      [status |-> 200, success |-> FALSE, message |-> <<>>, expiryMinutes |-> <<>>,
       data |-> <<>>],
      [status |-> 429, success |-> FALSE, message |-> <<"Too many OTP requests">>,
       expiryMinutes |-> <<>>, data |-> <<>>],
      [status |-> 0, success |-> FALSE, message |-> <<>>, expiryMinutes |-> <<>>,
       data |-> <<>>] }

\* The expiry the page already holds, whatever the reply and the clock.
expiryTimeKept(res, t) == login.otpExpiry

\* const expiryMinutes = res.data.data.expiryMinutes || 10;
\* const expiryTime = Date.now() + expiryMinutes * 60 * 1000;   (in seconds)
expiryTime(res, t) ==
    LET expiryMinutes == IF res.data[1].expiryMinutes # <<>>
                         THEN res.data[1].expiryMinutes[1] ELSE DefaultExpiryMinutes
    IN  t + expiryMinutes * 60

\* handleSendOTP after the await.  Reading res.data.data.expiryMinutes of a
\* body without data throws, which the catch block handles.
handleSendOTP_reply(res) ==
    /\ lcalls.send.pc = "sent"
    /\ res \in OtpResponses
    /\ sessionStorage' = responseInterceptor(res, sessionStorage)
    /\ lcalls' = [lcalls EXCEPT !.send = IdleCall]
    /\ \/ /\ res.status = 200
          /\ res.success
          /\ res.data # <<>>
          /\ login' = [login EXCEPT !.otpExpiry = expiryTime(res, now),
                                    !.showOTPStep = TRUE, !.isSendingOTP = FALSE]
       \/ /\ res.status = 200
          /\ res.success
          /\ res.data = <<>>
          /\ login' = [login EXCEPT !.error = "Failed to send OTP",
                                    !.showIdentityModal = TRUE, !.isSendingOTP = FALSE]
       \/ /\ res.status = 200
          /\ ~res.success
          /\ login' = [login EXCEPT !.error = "Failed to send OTP. Please try again.",
                                    !.isSendingOTP = FALSE]
       \/ /\ res.status # 200
          /\ login' = [login EXCEPT !.error = ErrorText(res, "Failed to send OTP"),
                                    !.showIdentityModal = TRUE, !.isSendingOTP = FALSE]
    /\ UNCHANGED <<loginView, otpInterval, lflow, now>>
    /\ UNCHANGED offLogin

\* handleResendOTP up to its await.
handleResendOTP ==
    /\ page = "login"
    /\ loginView.showOTPStep
    /\ ~ResendDisabled(loginView)
    /\ lcalls.resend.pc = "idle"
    /\ lflow.sends < MaxOtpSends
    /\ login' = [login EXCEPT !.isResendingOTP = TRUE, !.error = "", !.otp = ""]
    /\ lcalls' = [lcalls EXCEPT !.resend = [pc |-> "sent", cred |-> loginView.cred,
                                           identity |-> <<>>]]
    /\ lflow' = [lflow EXCEPT !.sends = @ + 1]
    /\ UNCHANGED <<loginView, otpInterval, now, sessionStorage>>
    /\ UNCHANGED offLogin

\* handleResendOTP after the await.
handleResendOTP_reply(res) ==
    /\ lcalls.resend.pc = "sent"
    /\ res \in OtpResponses
    /\ sessionStorage' = responseInterceptor(res, sessionStorage)
    /\ lcalls' = [lcalls EXCEPT !.resend = IdleCall]
    /\ \/ /\ res.status = 200
          /\ res.success
          /\ res.data # <<>>
          /\ login' = [login EXCEPT !.otpExpiry = expiryTime(res, now),
                                    !.isResendingOTP = FALSE]
       \/ /\ res.status = 200
          /\ res.success
          /\ res.data = <<>>
          /\ login' = [login EXCEPT !.error = "Failed to resend OTP",
                                    !.isResendingOTP = FALSE]
       \/ /\ res.status = 200
          /\ ~res.success
          /\ login' = [login EXCEPT !.error = "Failed to resend OTP. Please try again.",
                                    !.isResendingOTP = FALSE]
       \/ /\ res.status # 200
          /\ login' = [login EXCEPT !.error = ErrorText(res, "Failed to resend OTP"),
                                    !.isResendingOTP = FALSE]
    /\ UNCHANGED <<loginView, otpInterval, lflow, now>>
    /\ UNCHANGED offLogin

\* Back to Login: setShowOTPStep(false); setOtp(empty); setError('').
backToLogin ==
    /\ page = "login"
    /\ loginView.showOTPStep
    /\ login' = [login EXCEPT !.showOTPStep = FALSE, !.otp = "", !.error = ""]
    /\ UNCHANGED <<loginView, otpInterval, lcalls, lflow, now, sessionStorage>>
    /\ UNCHANGED offLogin

\* The cells of a mounted login page after its fetch of the active elections
\* selected e, the first of the list, or none when the list is empty.
fetchElections(e) == [LoginState EXCEPT !.selectedElection = e]

\* The login page once the elections were fetched on mount: the first active
\* election is selected, or none when the list is empty.  The selector is
\* left as the page set it.
InitLogin ==
    /\ DashboardIdle /\ ProofsIdle /\ VerifyIdle
    /\ \E e \in {Null, ElectionId} :
          /\ login = fetchElections(e)
          /\ loginView = login
    /\ otpInterval = NoTime
    /\ lcalls = [verify |-> IdleCall, send |-> IdleCall, resend |-> IdleCall]
    /\ lflow = [submits |-> 0, sends |-> 0, cred |-> Null, reported |-> FALSE]
    /\ otpCall = IdleOtpCall

NextLogin ==
    \/ \E c \in Credentials : setAadhaar(c)
    \/ loginRender
    \/ otpCountdown
    \/ handleVerifyIdentity
    \/ \E res \in IdentityResponses(lcalls.verify.cred) : handleVerifyIdentity_verify(res)
    \/ \E res \in StatusResponses : handleVerifyIdentity_status(res)
    \/ cancelIdentityModal
    \/ handleSendOTP
    \/ \E res \in OtpResponses : handleSendOTP_reply(res)
    \/ handleResendOTP
    \/ \E res \in OtpResponses : handleResendOTP_reply(res)
    \/ backToLogin

SpecLogin == InitLogin /\ [][NextLogin]_vars

\* ------------------------------------- VoterLogin: from the OTP to the session
\* The code the voter types into the six boxes.
OtpCode == "123456"

\* The proofs generateVoterProofs derives for the typed credential.
proofsOf(c) == [User EXCEPT !.name = c]

\* handleOTPChange for each box: the six digits are entered.
handleOTPChange ==
    /\ page = "login"
    /\ loginView.showOTPStep
    /\ login.otp # OtpCode
    /\ login' = [login EXCEPT !.otp = OtpCode]
    /\ UNCHANGED <<loginView, otpInterval, lcalls, lflow, now, sessionStorage>>
    /\ UNCHANGED offLogin

\* The same with no test of the length.
OtpIncompleteNever(v) == FALSE

\* otp.join('').length !== 6, the test of the submit button and of the
\* handler.
OtpIncomplete(v) == v.otp # OtpCode

\* handleVerifyOTP up to its first await.  The submit button is
\* disabled={isLoading || otp.join('').length !== 6}, so the length check of
\* the handler never fails.
handleVerifyOTP ==
    /\ page = "login"
    /\ loginView.showOTPStep
    /\ ~(loginView.isLoading \/ OtpIncomplete(loginView))
    /\ otpCall.pc = "idle"
    /\ login' = [login EXCEPT !.error = "", !.isLoading = TRUE]
    /\ otpCall' = [IdleOtpCall EXCEPT !.pc = "otp", !.cred = loginView.cred,
                       !.election = loginView.selectedElection,
                       !.identity = loginView.verifiedIdentity,
                       !.reqs = << [url |-> "/identity/verify-otp",
                                    body |-> [aadhaar |-> loginView.cred,
                                              voterId |-> loginView.cred,
                                              otp |-> loginView.otp],
                                    bearer |-> requestInterceptor(sessionStorage)] >>]
    /\ UNCHANGED <<loginView, lflow, page, sessionExpiry, timerOn, sessionStorage>>
    /\ UNCHANGED offSession

\* The replies to POST /identity/verify-otp.
VerifyOtpResponses ==
    { [status |-> 200, success |-> TRUE, message |-> <<>>],
      [status |-> 200, success |-> FALSE, message |-> <<>>],
      [status |-> 400, success |-> FALSE, message |-> <<"Invalid or expired OTP">>],
      [status |-> 0, success |-> FALSE, message |-> <<>>] }

\* The same with a fixed text in place of the one set.
LoginFailedGeneric(l, text) ==
    [l EXCEPT !.error = "Login failed. Please try again.", !.isLoading = FALSE,
              !.isCreatingSession = FALSE]

\* What the catch and finally blocks of handleVerifyOTP leave.
LoginFailed(l, text) ==
    [l EXCEPT !.error = text, !.isLoading = FALSE, !.isCreatingSession = FALSE]

\* What handleVerifyOTP leaves after a verify-otp reply that rejects the code:
\* an error status is caught, success false sets the error and returns.
OtpRejected(l, res) ==
    IF res.status # 200
    THEN LoginFailed(l, ErrorText(res, "Login failed. Please try again."))
    ELSE LoginFailed(l, "Invalid OTP. Please try again.")

\* handleVerifyOTP after POST /identity/verify-otp: on success it requests
\* the session.
handleVerifyOTP_otp(res) ==
    /\ otpCall.pc = "otp"
    /\ res \in VerifyOtpResponses
    /\ sessionStorage' = responseInterceptor(res, sessionStorage)
    /\ \/ /\ ~(res.status = 200 /\ res.success)
          /\ login' = OtpRejected(login, res)
          /\ otpCall' = IdleOtpCall
       \/ /\ res.status = 200
          /\ res.success
          /\ login' = [login EXCEPT !.isCreatingSession = TRUE]
          /\ otpCall' = [otpCall EXCEPT !.pc = "create", !.otpVerified = TRUE,
                 !.reqs = Append(@,
                     [url |-> "/ec/create-session",
                      body |-> [aadhaar |-> otpCall.cred, voterId |-> otpCall.cred,
                                fingerprintVerified |-> TRUE, otpVerified |-> TRUE,
                                electionId |-> otpCall.election],
                      bearer |-> requestInterceptor(sessionStorage')])]
    /\ UNCHANGED <<loginView, lflow, page, sessionExpiry, timerOn>>
    /\ UNCHANGED offSession

\* The session object of a create-session reply; a field is <<>> when absent.
SessionData(sessionID, authToken, expiresAt) ==
    [sessionID |-> sessionID, authToken |-> authToken, expiresAt |-> expiresAt]

\* The replies to POST /ec/create-session: the session flat in the body or
\* nested under data, with or without expiresAt, or without the token or
\* without the session id.
SessionResponses ==
    { [status |-> 200, success |-> TRUE, message |-> <<>>, data |-> <<>>,
       flat |-> SessionData(<<SessionID>>, <<AuthToken>>, <<ExpiryAt>>)],
      [status |-> 200, success |-> TRUE, message |-> <<>>,
       data |-> <<SessionData(<<SessionID>>, <<AuthToken>>, <<>>)>>,
       flat |-> SessionData(<<>>, <<>>, <<>>)],
      [status |-> 200, success |-> TRUE, message |-> <<>>, data |-> <<>>,
       flat |-> SessionData(<<SessionID>>, <<>>, <<>>)],
      [status |-> 200, success |-> TRUE, message |-> <<>>,
       data |-> <<SessionData(<<>>, <<AuthToken>>, <<ExpiryAt>>)>>,
       flat |-> SessionData(<<>>, <<>>, <<>>)],
      [status |-> 200, success |-> FALSE, message |-> <<"Voter not eligible">>,
       data |-> <<>>, flat |-> SessionData(<<>>, <<>>, <<>>)],
      [status |-> 500, success |-> FALSE, message |-> <<>>, data |-> <<>>,
       flat |-> SessionData(<<>>, <<>>, <<>>)],
      [status |-> 0, success |-> FALSE, message |-> <<>>, data |-> <<>>,
       flat |-> SessionData(<<>>, <<>>, <<>>)] }

\* handleVerifyOTP after POST /ec/create-session: with sessionID and authToken
\* it stores both in the component and in sessionStorage (and expiresAt, when
\* the reply holds it, as sessionExpiry), derives the proofs
\* and requests the final has-voted check.  verifiedIdentity.name of a null
\* identity throws, which the catch block handles.
handleVerifyOTP_session(res) ==
    /\ otpCall.pc = "create"
    /\ res \in SessionResponses
    /\ LET sessionData == IF res.data # <<>> THEN res.data[1] ELSE res.flat
           complete == sessionData.sessionID # <<>> /\ sessionData.authToken # <<>>
           stored == [authToken |-> sessionData.authToken[1],
                      sessionID |-> sessionData.sessionID[1],
                      sessionExpiry |-> IF sessionData.expiresAt # <<>>
                                        THEN sessionData.expiresAt[1]
                                        ELSE sessionStorage.sessionExpiry]
       IN
       \/ /\ res.status # 200
          /\ sessionStorage' = responseInterceptor(res, sessionStorage)
          /\ login' = LoginFailed(login, ErrorText(res, "Login failed. Please try again."))
          /\ otpCall' = IdleOtpCall
       \/ /\ res.status = 200
          /\ ~res.success
          /\ sessionStorage' = sessionStorage
          /\ login' = LoginFailed(login,
                 IF res.message # <<>> THEN res.message[1]
                 ELSE "Failed to create session. Please try again.")
          /\ otpCall' = IdleOtpCall
       \/ /\ res.status = 200
          /\ res.success
          /\ ~complete
          /\ sessionStorage' = sessionStorage
          /\ login' = LoginFailed(login,
                 "Backend error: Session data incomplete. Check backend logs.")
          /\ otpCall' = IdleOtpCall
       \/ /\ res.status = 200
          /\ res.success
          /\ complete
          /\ sessionStorage' = stored
          /\ IF otpCall.identity = <<>>
             THEN /\ login' = LoginFailed([login EXCEPT !.sessionID = stored.sessionID,
                                                        !.authToken = stored.authToken],
                                          "Login failed. Please try again.")
                  /\ otpCall' = IdleOtpCall
             ELSE /\ login' = [login EXCEPT !.sessionID = stored.sessionID,
                                            !.authToken = stored.authToken]
                  /\ otpCall' = [otpCall EXCEPT !.pc = "status", !.sessionCreated = TRUE,
                         !.expiresAt = IF sessionData.expiresAt # <<>>
                                       THEN sessionData.expiresAt[1] ELSE NoTime,
                         !.reqs = Append(@,
                             [url |-> "/voters/:electionId/:voterProof",
                              body |-> [electionId |-> otpCall.election,
                                        voterProof |-> proofsOf(otpCall.cred).voterProof],
                              bearer |-> requestInterceptor(stored)])]
    /\ UNCHANGED <<loginView, lflow, page, sessionExpiry, timerOn>>
    /\ UNCHANGED offSession

\* handleVerifyOTP after the final has-voted check: unless the reply reads as
\* voted it navigates to /vote with user, election, sessionID, authToken and
\* sessionExpiry; the login page unmounts and its countdown is cleared.
handleVerifyOTP_status(res) ==
    /\ otpCall.pc = "status"
    /\ res \in StatusResponses
    /\ sessionStorage' = responseInterceptor(res, sessionStorage)
    /\ lflow' = [lflow EXCEPT !.reported = @ \/ ReportsVoted(res)]
    /\ \/ /\ res.status # 200
          /\ login' = LoginFailed(login, ErrorText(res, "Login failed. Please try again."))
          /\ otpCall' = IdleOtpCall
          /\ UNCHANGED <<loginView, otpInterval, page, sessionExpiry, timerOn,
                         locationState>>
       \/ /\ res.status = 200
          /\ ReadsVoted(res)
          /\ login' = LoginFailed(login, "You have already voted in this election.")
          /\ otpCall' = IdleOtpCall
          /\ UNCHANGED <<loginView, otpInterval, page, sessionExpiry, timerOn,
                         locationState>>
       \/ /\ res.status = 200
          /\ ~ReadsVoted(res)
          /\ page' = "vote"
          /\ locationState' = "session"
          /\ sessionExpiry' = otpCall.expiresAt
          /\ timerOn' = (otpCall.expiresAt # NoTime)
          /\ login' = fetchElections(login.selectedElection)
          /\ loginView' = fetchElections(login.selectedElection)
          /\ otpInterval' = NoTime
          /\ otpCall' = [otpCall EXCEPT !.pc = "done"]
    /\ UNCHANGED <<variant, exitCause, now, st, view, calls, poll, proofs, verify, lcalls>>

\* A reply to a handler of the login page that arrives after the page was
\* left: the handler runs on, its setters do nothing.  handleVerifyIdentity
\* still requests the has-voted check after a successful identity reply.
lateReply(k, success) ==
    /\ page = "vote"
    /\ lcalls[k].pc # "idle"
    /\ lcalls' = [lcalls EXCEPT ![k] =
                    IF k = "verify" /\ @.pc = "verify" /\ success
                    THEN [@ EXCEPT !.pc = "status"] ELSE IdleCall]
    /\ UNCHANGED <<login, loginView, otpInterval, lflow, now, sessionStorage>>
    /\ UNCHANGED offLogin

\* The login page without the passing of time: the countdown is explored by
\* SpecLogin.
NextSession ==
    \/ \E c \in Credentials : setAadhaar(c)
    \/ loginRender
    \/ handleVerifyIdentity
    \/ \E res \in IdentityResponses(lcalls.verify.cred) :
          page = "login" /\ handleVerifyIdentity_verify(res)
    \/ \E res \in StatusResponses : page = "login" /\ handleVerifyIdentity_status(res)
    \/ cancelIdentityModal
    \/ handleSendOTP
    \/ \E res \in OtpResponses : page = "login" /\ handleSendOTP_reply(res)
    \/ handleResendOTP
    \/ \E res \in OtpResponses : page = "login" /\ handleResendOTP_reply(res)
    \/ backToLogin
    \/ handleOTPChange
    \/ handleVerifyOTP
    \/ \E res \in VerifyOtpResponses : handleVerifyOTP_otp(res)
    \/ \E res \in SessionResponses : handleVerifyOTP_session(res)
    \/ \E res \in StatusResponses : handleVerifyOTP_status(res)
    \/ \E k \in {"verify", "send", "resend"} : \E success \in BOOLEAN : lateReply(k, success)

SpecSession == InitLogin /\ [][NextSession]_vars

\* The OTP step right after handleSendOTP stored the expiry of the first OTP,
\* sent at second 0: the step is set but not yet rendered, and no countdown
\* is armed yet.
InitResend ==
    /\ DashboardIdle /\ ProofsIdle /\ VerifyIdle
    /\ \E c \in Credentials :
          /\ login = [LoginState EXCEPT !.cred = c, !.verifiedIdentity = <<[name |-> c]>>,
                                        !.selectedElection = ElectionId,
                                        !.showOTPStep = TRUE,
                                        !.otpExpiry = DefaultExpiryMinutes * 60]
          /\ loginView = [LoginState EXCEPT !.cred = c,
                                            !.verifiedIdentity = <<[name |-> c]>>,
                                            !.selectedElection = ElectionId,
                                            !.isSendingOTP = TRUE]
          /\ lflow = [submits |-> 1, sends |-> 1, cred |-> c, reported |-> FALSE]
    /\ otpInterval = NoTime
    /\ lcalls = [verify |-> IdleCall, send |-> IdleCall, resend |-> IdleCall]
    /\ otpCall = IdleOtpCall

\* The OTP step: typing the code, the countdown, the resend and the way back.
NextResend ==
    \/ loginRender
    \/ otpCountdown
    \/ handleOTPChange
    \/ handleResendOTP
    \/ \E res \in OtpResponses : handleResendOTP_reply(res)
    \/ backToLogin

SpecResend == InitResend /\ [][NextResend]_vars

\* --------------------------------------------- pages/VoterLogin.jsx
\* The login page the router mounts at "/": identity verification and a
\* confirmation modal, then the voting page.
\* handleVerifyIdentity after POST /identity/verify.
VoterLogin_handleVerifyIdentity_reply(res) ==
    /\ page = "login"
    /\ lcalls.verify.pc = "verify"
    /\ res \in IdentityResponses(lcalls.verify.cred)
    /\ sessionStorage' = responseInterceptor(res, sessionStorage)
    /\ lcalls' = [lcalls EXCEPT !.verify = IdleCall]
    /\ \/ /\ res.status = 200
          /\ res.success
          /\ login' = [login EXCEPT !.verifiedIdentity = res.data,
                                    !.showIdentityModal = TRUE, !.isLoading = FALSE]
       \/ /\ res.status = 200
          /\ ~res.success
          /\ login' = [login EXCEPT !.isLoading = FALSE,
                 !.error = "Identity verification failed. Please check your details."]
       \/ /\ res.status # 200
          /\ login' = [login EXCEPT !.isLoading = FALSE,
                 !.error = ErrorText(res, "Identity verification failed")]
    /\ UNCHANGED <<loginView, otpInterval, lflow, now>>
    /\ UNCHANGED offLogin

\* handleConfirmLogin (the modal's confirm button) up to its await of
\* generateVoterProofs.
handleConfirmLogin ==
    /\ ModalVisible
    /\ lcalls.send.pc = "idle"
    /\ login' = [login EXCEPT !.isLoading = TRUE, !.showIdentityModal = FALSE]
    /\ lcalls' = [lcalls EXCEPT !.send = [pc |-> "proofs", cred |-> loginView.cred,
                                         identity |-> loginView.verifiedIdentity]]
    /\ UNCHANGED <<loginView, otpInterval, lflow, now, sessionStorage>>
    /\ UNCHANGED offLogin

\* handleConfirmLogin with the proofs: navigate('/vote', {state: {user,
\* election}}).
handleConfirmLogin_proofs ==
    /\ lcalls.send.pc = "proofs"
    /\ lcalls' = [lcalls EXCEPT !.send = IdleCall]
    /\ page' = "vote"
    /\ locationState' = "user"
    /\ login' = fetchElections(login.selectedElection)
    /\ loginView' = fetchElections(login.selectedElection)
    /\ UNCHANGED <<variant, exitCause, sessionExpiry, sessionStorage, now, timerOn, st,
                   view, calls, poll, proofs, verify, otpInterval, lflow, otpCall>>

\* VotingDashboard's effect after mount: without user and election, or
\* without sessionID and authToken, it navigates to "/".
sessionCheck ==
    /\ page = "vote"
    /\ locationState # "session"
    /\ Leave("nosession")
    /\ locationState' = "none"
    /\ UNCHANGED <<variant, sessionExpiry, sessionStorage, now, st, view, calls, poll,
                   proofs, verify, login, loginView, otpInterval, lcalls, lflow, otpCall>>

NextVoterLogin ==
    \/ \E c \in Credentials : setAadhaar(c)
    \/ loginRender
    \/ handleVerifyIdentity
    \/ \E res \in IdentityResponses(lcalls.verify.cred) :
          VoterLogin_handleVerifyIdentity_reply(res)
    \/ cancelIdentityModal
    \/ handleConfirmLogin
    \/ handleConfirmLogin_proofs
    \/ sessionCheck

SpecVoterLogin == InitLogin /\ [][NextVoterLogin]_vars

\* ------------------------------------------------ crypto.js: voter proofs
\* A JavaScript string is the sequence of its code points.
\* new TextEncoder().encode(input): the UTF-8 bytes of the string (code
\* points below 2048).
RECURSIVE TextEncoder_encode(_)
TextEncoder_encode(input) ==
    IF input = <<>> THEN <<>>
    ELSE LET cp == Head(input)
         IN  (IF cp < 128 THEN <<cp>> ELSE <<192 + (cp \div 64), 128 + (cp % 64)>>)
             \o TextEncoder_encode(Tail(input))

\* crypto.subtle.digest('SHA-256', bytes): a fixed-width digest of the bytes,
\* here DigestBytes bytes wide instead of 32.
RECURSIVE DigestState(_)
DigestState(bytes) ==
    IF bytes = <<>> THEN 5381 % (256 ^ DigestBytes)
    ELSE (DigestState(SubSeq(bytes, 1, Len(bytes) - 1)) * 33 + bytes[Len(bytes)])
            % (256 ^ DigestBytes)

digest(bytes) ==
    [k \in 1..DigestBytes |-> (DigestState(bytes) \div (256 ^ (DigestBytes - k))) % 256]

\* The code point of a hexadecimal digit: '0'..'9', 'a'..'f'.
HexDigit(d) == IF d < 10 THEN 48 + d ELSE 87 + d

\* b.toString(16)
toString16(b) ==
    IF b < 16 THEN <<HexDigit(b)>> ELSE <<HexDigit(b \div 16), HexDigit(b % 16)>>

\* s.padStart(2, '0')
padStart2(s) == IF Len(s) < 2 THEN <<48>> \o s ELSE s

\* hashArray.map(b => b.toString(16).padStart(2, '0')).join('')
RECURSIVE hashHex(_)
hashHex(hashArray) ==
    IF hashArray = <<>> THEN <<>>
    ELSE padStart2(toString16(Head(hashArray))) \o hashHex(Tail(hashArray))

sha256(input) == hashHex(digest(TextEncoder_encode(input)))

\* The strings joined the other way round.
concatReversed(hashedAadhaar, hashedVoterID) == hashedVoterID \o hashedAadhaar

\* hashedAadhaar + hashedVoterID
concatHashes(hashedAadhaar, hashedVoterID) == hashedAadhaar \o hashedVoterID

\* The credentials and names the derivation is run on.
Aadhaars == { <<49, 50>>, <<49, 51>>, <<50>> }
VoterIds == { <<65, 49>>, <<49, 50>> }
Names == { <<82, 97>>, <<82, 233>> }
Runs == 1..MaxRuns

NewRun(name) ==
    [name |-> name, pc |-> 0, hashedAadhaar |-> <<>>, hashedVoterID |-> <<>>,
     hashedName |-> <<>>, voterProof |-> <<>>]

\* generateVoterProofs(aadhaar, voterId, name) of run r, one await at a time.
generateVoterProofs(r) ==
    /\ proofs # <<>>
    /\ \/ /\ proofs.runs[r].pc = 0
          /\ proofs' = [proofs EXCEPT !.runs[r].pc = 1,
                           !.runs[r].hashedAadhaar = sha256(proofs.aadhaar)]
       \/ /\ proofs.runs[r].pc = 1
          /\ proofs' = [proofs EXCEPT !.runs[r].pc = 2,
                           !.runs[r].hashedVoterID = sha256(proofs.voterId)]
       \/ /\ proofs.runs[r].pc = 2
          /\ proofs' = [proofs EXCEPT !.runs[r].pc = 3,
                           !.runs[r].hashedName = sha256(proofs.runs[r].name)]
       \/ /\ proofs.runs[r].pc = 3
          /\ proofs' = [proofs EXCEPT !.runs[r].pc = 4,
                           !.runs[r].voterProof =
                               sha256(concatHashes(proofs.runs[r].hashedAadhaar,
                                                   proofs.runs[r].hashedVoterID))]
    /\ UNCHANGED <<dashVars, loginVars, verify>>

InitProofs ==
    /\ DashboardIdle /\ LoginIdle /\ VerifyIdle
    /\ \E a \in Aadhaars, v \in VoterIds, names \in [Runs -> Names] :
          proofs = [aadhaar |-> a, voterId |-> v, runs |-> [r \in Runs |-> NewRun(names[r])]]

NextProofs == \E r \in Runs : generateVoterProofs(r)

SpecProofs == InitProofs /\ [][NextProofs]_vars

\* --------------------------------------- VerifyModal.jsx / VerifyVote.jsx
\* The identifiers typed into the verify form: the verification token the
\* voting page showed, and one the ledger does not know.
TxIds == {"vt1", "unknown"}

\* || 'Vote not found on blockchain'  /  || 'Verification failed'
VerifyFallback(component) ==
    IF component = "VerifyModal" THEN "Vote not found on blockchain"
    ELSE "Verification failed"

VerifyState(component) ==
    [component |-> component, txId |-> Null, verifying |-> FALSE,
     verifyResult |-> <<>>, verifyError |-> "",
     view |-> [txId |-> Null, verifying |-> FALSE],
     pending |-> Null, token |-> "fresh", submits |-> 0, history |-> {}]

\* onChange={(e) => setTxId(e.target.value)}
setTxId(id) ==
    /\ verify # <<>>
    /\ verify.txId # id
    /\ verify' = [verify EXCEPT !.txId = id]
    /\ UNCHANGED <<dashVars, loginVars, proofs>>

verifyRender ==
    /\ verify # <<>>
    /\ verify.view # [txId |-> verify.txId, verifying |-> verify.verifying]
    /\ verify' = [verify EXCEPT !.view = [txId |-> verify.txId,
                                          verifying |-> verify.verifying]]
    /\ UNCHANGED <<dashVars, loginVars, proofs>>

\* handleVerify up to its await; the submit button is
\* disabled={verifying || txId.length !== 64}.
handleVerify ==
    /\ verify # <<>>
    /\ ~verify.view.verifying
    /\ verify.view.txId # Null
    /\ verify.pending = Null
    /\ verify.submits < MaxVerifies
    /\ verify' = [verify EXCEPT !.verifyError = "", !.verifyResult = <<>>,
                                !.verifying = TRUE, !.pending = verify.view.txId,
                                !.submits = @ + 1]
    /\ UNCHANGED <<dashVars, loginVars, proofs>>

\* What redeeming identifier id is for the ledger.
Outcome(id, token) ==
    IF id = "vt1" /\ token = "fresh" THEN "OK"
    ELSE IF id = "vt1" THEN "ALREADY_USED"
    ELSE "EXPIRED_OR_NOT_FOUND"

\* The replies to GET /votes/verify/:id for an outcome; the error bodies
\* come with or without a message.
VerifyResponses(outcome) ==
    IF outcome = "OK"
    THEN { [code |-> "OK", status |-> 200, success |-> TRUE, message |-> <<>>,
            data |-> <<[exists |-> TRUE, candidate |-> "c1"]>>],
           [code |-> "OTHER", status |-> 500, success |-> FALSE, message |-> <<>>,
            data |-> <<>>] }
    ELSE IF outcome = "ALREADY_USED"
    THEN { [code |-> outcome, status |-> 409, success |-> FALSE,
            message |-> <<"Verification token already used">>, data |-> <<>>],
           [code |-> outcome, status |-> 409, success |-> FALSE, message |-> <<>>,
            data |-> <<>>],
           [code |-> outcome, status |-> 200, success |-> FALSE,
            message |-> <<"Verification token already used">>, data |-> <<>>] }
    ELSE { [code |-> outcome, status |-> 404, success |-> FALSE,
            message |-> <<"Vote not found">>, data |-> <<>>],
           [code |-> outcome, status |-> 404, success |-> FALSE, message |-> <<>>,
            data |-> <<>>] }

\* What the form shows: the result block and the error block.
Shown(v) == [result |-> v.verifyResult, error |-> v.verifyError]

\* handleVerify after the await.
handleVerify_reply(res) ==
    /\ verify # <<>>
    /\ verify.pending # Null
    /\ res \in VerifyResponses(Outcome(verify.pending, verify.token))
    /\ sessionStorage' = responseInterceptor(res, sessionStorage)
    /\ LET after ==
            IF res.status = 200 /\ res.success
            THEN [verify EXCEPT !.verifyResult = res.data, !.verifying = FALSE]
            ELSE IF res.status = 200
            THEN [verify EXCEPT !.verifying = FALSE]
            ELSE [verify EXCEPT !.verifying = FALSE,
                     !.verifyError = ErrorText(res, VerifyFallback(verify.component))]
       IN  verify' = [after EXCEPT !.pending = Null,
                         !.token = IF res.code = "OK" THEN "used" ELSE @,
                         !.history = @ \cup {[code |-> res.code, shown |-> Shown(after)]}]
    /\ UNCHANGED <<variant, page, exitCause, sessionExpiry, now, timerOn, st, view,
                   calls, poll, loginVars, proofs>>

\* VerifyModal's handleClose: clears the form.
handleClose ==
    /\ verify # <<>>
    /\ verify.component = "VerifyModal"
    /\ verify.txId # Null \/ verify.verifyResult # <<>> \/ verify.verifyError # ""
            \/ verify.verifying
    /\ verify' = [verify EXCEPT !.txId = Null, !.verifyResult = <<>>,
                                !.verifyError = "", !.verifying = FALSE]
    /\ UNCHANGED <<dashVars, loginVars, proofs>>

InitVerify ==
    /\ DashboardIdle /\ LoginIdle /\ ProofsIdle
    /\ \E component \in {"VerifyModal", "VerifyVote"} : verify = VerifyState(component)

NextVerify ==
    \/ \E id \in TxIds : setTxId(id)
    \/ verifyRender
    \/ handleVerify
    \/ \E res \in VerifyResponses(Outcome(verify.pending, verify.token)) :
          handleVerify_reply(res)
    \/ handleClose

SpecVerify == InitVerify /\ [][NextVerify]_vars

\* ------------------------------------------------------------------ claims
\* The cast-vote requests issued so far.
CastRequests ==
    { calls[i].reqs[k] : <<i, k>> \in
        { p \in Calls \X (1..2) : p[2] <= Len(calls[p[1]].reqs)
                                   /\ calls[p[1]].reqs[p[2]].url = "/votes" } }

VoteFields == {"voteID", "electionId", "candidateId", "blindSignature", "batchID"}

\* C1: the body of every cast-vote request holds only voteID, electionId,
\* candidateId, blindSignature and batchID, and none of hashedAadhaar,
\* hashedVoterID, hashedName, voterProof.
C1_VotePayloadAnonymous ==
    \A r \in CastRequests :
        /\ DOMAIN r.body \subseteq VoteFields
        /\ DOMAIN r.body \cap ProofSetFields = {}

\* The invocations of handleVote with a request in flight.
InFlight == { i \in Calls : calls[i].pc \in {"sig", "cast"} }

\* C2 (as claimed): while one submission is in flight a second invocation of
\* handleVote issues no network call, so at most one invocation ever has a
\* request in flight.
C2_NoSecondSubmission == Cardinality(InFlight) <= 1

\* C3 (as claimed): receipt polling stops issuing requests after at most
\* maxAttempts ticks, whatever the replies: no poller ever makes more than
\* maxAttempts attempts.
C3_PollingBounded == \A i \in Calls : poll[i].attempts <= maxAttempts

\* C4 (as claimed): once the session expired with a candidate selected and no
\* vote submitted, the page is left and sessionStorage holds neither authToken
\* nor sessionID.
C4_ExpiryClearsSession ==
    (exitCause = "expired" /\ st.selectedCandidate # Null
        /\ \A i \in Calls : calls[i].pc = "new")
    => /\ page = "login"
       /\ sessionStorage.authToken = Null
       /\ sessionStorage.sessionID = Null

\* The step issues a send-otp request from handler k.
IssuesSendOtp(k) == lcalls[k].pc = "idle" /\ lcalls'[k].pc = "sent"

\* C5 (as claimed): once the has-voted check made after identity
\* verification reported hasVoted = true, the identity modal is not shown
\* and no send-otp request is issued for that credential in that flow.
C5_ModalHidden == lflow.reported => ~ModalVisible
C5_Step ==
    \A k \in {"send", "resend"} :
        IssuesSendOtp(k) => ~(lflow.reported /\ lcalls'[k].cred = lflow.cred)
C5_NoOtpAfterVoted == []C5_ModalHidden /\ [][C5_Step]_vars

\* C6: a cast-vote request is in flight only for an invocation whose
\* signature request succeeded; an invocation whose signature request failed
\* ends without a cast-vote request, leaves voteSuccess as it was and resets
\* isVoting and isRequestingSignature; and with no invocation in flight
\* isVoting is false, so the Confirm Vote button is enabled again.
C6_Step ==
    /\ \A i \in Calls :
        /\ calls'[i].pc = "cast" => calls'[i].sig = "success"
        /\ (calls[i].pc = "sig" /\ calls'[i].pc # "sig" /\ calls'[i].pc # "cast")
            => /\ calls'[i].pc = "failed"
               /\ calls'[i].reqs = <<>>
               /\ st'.voteSuccess = st.voteSuccess
               /\ page = "vote" => (~st'.isVoting /\ ~st'.isRequestingSignature)
    /\ (page' = "vote" /\ \A i \in Calls : calls'[i].pc \notin {"sig", "cast"})
        => ~st'.isVoting
C6_SignatureBeforeCast == [][C6_Step]_vars

\* C6 witness: the signature request of the first invocation was rejected as
\* unauthenticated; nothing was cast and the page can vote again.
C6_Witness ==
    /\ page = "vote"
    /\ calls[1].pc = "failed"
    /\ calls[2].pc = "new"
    /\ st.error = "Invalid or expired session"
    /\ st.blindSignature = <<>>
    /\ ~st.isVoting /\ ~st.voteSuccess
    /\ view.selectedCandidate # Null /\ ~view.isVoting

\* The time left until the OTP expiry the page holds.
OtpRemaining == Remaining(login.otpExpiry, now)

\* The Resend OTP button is on screen and enabled.
ResendAvailable ==
    /\ page = "login"
    /\ loginView.showOTPStep
    /\ ~ResendDisabled(loginView)

\* C7 (as claimed): with a 10-minute OTP, resend is not available while more
\* than 9 minutes remain, also right after the OTP was sent or resent, and
\* it is available on the rendered OTP step whenever at most 1 minute
\* remains and no resend is in flight.
C7_ResendWindow ==
    (page = "login" /\ loginView.showOTPStep /\ login.otpExpiry # NoTime)
    => /\ OtpRemaining > 9 * 60 => ~ResendAvailable
       /\ (OtpRemaining <= 1 * 60 /\ lcalls.resend.pc = "idle" /\ loginView = login)
            => ResendAvailable

\* C8 (as claimed): the first redemption of a fresh token shows the
\* candidate, and a redemption answered ALREADY_USED shows an error that
\* differs from what any not-found, expired or other failure shows.
C8_ReuseDistinct ==
    verify # <<>> =>
    \A h \in verify.history :
        /\ h.code = "OK" => h.shown.result = <<[exists |-> TRUE, candidate |-> "c1"]>>
        /\ h.code = "ALREADY_USED" =>
            /\ h.shown.error # ""
            /\ \A g \in verify.history :
                  g.code \in {"EXPIRED_OR_NOT_FOUND", "OTHER"} => g.shown # h.shown

\* The value of a hexadecimal digit given by its code point (16: none).
HexValue(cp) ==
    IF cp >= 48 /\ cp <= 57 THEN cp - 48
    ELSE IF cp >= 97 /\ cp <= 102 THEN cp - 87 ELSE 16

\* The bytes a hex string of two digits per byte stands for.
RECURSIVE parseHex(_)
parseHex(hex) ==
    IF Len(hex) < 2 THEN <<>>
    ELSE <<HexValue(hex[1]) * 16 + HexValue(hex[2])>> \o parseHex(SubSeq(hex, 3, Len(hex)))

\* H(x): the digest of the UTF-8 bytes of x.
H(x) == digest(TextEncoder_encode(x))

\* A string is a lower-case hex string of the digest's width.
IsDigestHex(s) ==
    /\ Len(s) = 2 * DigestBytes
    /\ \A k \in 1..Len(s) : HexValue(s[k]) < 16

\* C9: generateVoterProofs is a function of its inputs: hashedAadhaar,
\* hashedVoterID and hashedName are the hex strings of H(aadhaar), H(voterId)
\* and H(name); voterProof is the hex string of H(hex(H(aadhaar)) ++
\* hex(H(voterId))); and every run on the same (aadhaar, voterId) yields the
\* same voterProof, whatever the name.
C9_ProofsDeterministic ==
    proofs # <<>> =>
    \A r \in Runs :
        LET run == proofs.runs[r] IN
        /\ run.pc >= 1 => /\ IsDigestHex(run.hashedAadhaar)
                          /\ parseHex(run.hashedAadhaar) = H(proofs.aadhaar)
        /\ run.pc >= 2 => /\ IsDigestHex(run.hashedVoterID)
                          /\ parseHex(run.hashedVoterID) = H(proofs.voterId)
        /\ run.pc >= 3 => /\ IsDigestHex(run.hashedName)
                          /\ parseHex(run.hashedName) = H(run.name)
        /\ run.pc = 4 =>
            /\ IsDigestHex(run.voterProof)
            /\ parseHex(run.voterProof) = H(run.hashedAadhaar \o run.hashedVoterID)
            /\ \A q \in Runs : proofs.runs[q].pc = 4 =>
                                  proofs.runs[q].voterProof = run.voterProof

\* C9 witness: two runs on the same credential with different names have
\* finished: their hashedName differ and a digest byte below 16 was padded.
C9_Witness ==
    /\ proofs # <<>>
    /\ \A r \in Runs : proofs.runs[r].pc = 4
    /\ proofs.runs[1].name # proofs.runs[2].name
    /\ proofs.runs[1].hashedName # proofs.runs[2].hashedName
    /\ \E k \in 1..DigestBytes : H(proofs.runs[1].hashedAadhaar
                                   \o proofs.runs[1].hashedVoterID)[k] < 16

\* C10 (as claimed): at most one cast-vote request is acknowledged as
\* success, and once voteSuccess is set no invocation issues a further
\* signature or cast-vote request.
C10_Step ==
    /\ Cardinality({ i \in Calls : calls'[i].pc = "ok" }) <= 1
    /\ st.voteSuccess => \A i \in Calls : Len(calls'[i].reqs) <= Len(calls[i].reqs)
C10_OneVotePerSession == [][C10_Step]_vars

\* The envelope b is the blinded vote of (election, candidate) at some time.
Encodes(b, election, candidate) ==
    \E t \in 0..MaxTime :
        atob(b) = JSONstringify([election |-> election, candidate |-> candidate,
                                 timestamp |-> t])

\* C11: every cast-vote request carries the electionId and candidateId that
\* the blinded vote under its blindSignature encodes, and that blinded vote
\* is the one the same submission sent for signing, also when the voter
\* selected another candidate while the signature request was in flight.
C11_SignatureMatchesPayload ==
    \A i \in Calls :
        Len(calls[i].reqs) = 2 =>
            LET sent == calls[i].reqs[1].body.blindedVote
                body == calls[i].reqs[2].body
            IN  /\ body.blindSignature.signed = sent
                /\ Encodes(sent, body.electionId, body.candidateId)

\* A cast-vote request is in flight for a candidate other than the one that
\* is selected now.
C11_Witness ==
    \E i \in Calls :
        /\ calls[i].pc = "cast"
        /\ st.selectedCandidate \in Candidates
        /\ st.selectedCandidate # calls[i].reqs[2].body.candidateId

\* C12: what the authority receives in a signature request does not depend on
\* the candidate: the submission of the other candidate, with the same
\* election, time, session and nonce, sends the same request body.
C12_EnvelopeHidesCandidate ==
    \A i \in Calls :
        Len(calls[i].reqs) >= 1 =>
            \A c \in Candidates :
                signatureRequest(i, c, calls[i].t0).body = calls[i].reqs[1].body

C13_Step ==
    /\ (page = "login" /\ page' = "vote") =>
           /\ otpCall.otpVerified
           /\ otpCall.sessionCreated
           /\ locationState' = "session"
    /\ (sessionStorage.authToken = Null /\ sessionStorage'.authToken # Null) =>
           /\ otpCall.otpVerified
           /\ otpCall.pc = "create"
    /\ (otpCall.pc # "create" /\ otpCall'.pc = "create") => otpCall'.otpVerified

\* C13: a step navigates to /vote only in a submission whose verify-otp and
\* create-session both succeeded, and then with the session in the location
\* state; the bearer token is stored only by the create-session reply of a
\* submission whose verify-otp succeeded; create-session is requested only
\* after verify-otp succeeded.
C13_SessionBeforeVotingPage == [][C13_Step]_vars

\* C14: every request-blind-signature and cast-vote request of the voting
\* page carries the bearer token of the session.
C14_BearerOnEveryCall ==
    \A i \in Calls :
        \A k \in 1..Len(calls[i].reqs) : calls[i].reqs[k].bearer = AuthToken

\* C15: every receipt lookup issued is keyed by the electionId and the voteID
\* of the vote and by nothing else, so never by a hash of the voter's
\* identity.
C15_ReceiptKeyedByVoteID ==
    \A i \in Calls :
        poll[i].attempts > 0 =>
            /\ DOMAIN poll[i].key = {"electionId", "generatedVoteID"}
            /\ poll[i].key.electionId = ElectionId
            /\ poll[i].key.generatedVoteID = generateVoteID(i)

C16_Step ==
    \A i \in Calls :
        (calls[i].pc = "new" /\ calls'[i].pc = "sig") =>
            \A j \in Calls : calls[j].pc = "new" /\ calls[j].reqs = <<>>

\* C16: the voting page is mounted by the step that takes the answer of the
\* second has-voted check; from there a request-blind-signature call is
\* issued only while no other request has been issued since that check.
C16_CheckPrecedesSignature == [][C16_Step]_vars

\* The login page shows the already-voted error of the first or of the second
\* has-voted check.
AlreadyVotedShown ==
    login.error \in
        {"You have already voted in this election. Your vote has been recorded.",
         "You have already voted in this election."}

\* The step sends a request of the login flow.
IssuesLoginRequest ==
    \/ lcalls.verify.pc = "idle" /\ lcalls'.verify.pc = "verify"
    \/ lcalls.verify.pc = "verify" /\ lcalls'.verify.pc = "status"
    \/ lcalls.send.pc = "idle" /\ lcalls'.send.pc # "idle"
    \/ lcalls.resend.pc = "idle" /\ lcalls'.resend.pc # "idle"
    \/ Len(otpCall'.reqs) > Len(otpCall.reqs)

C17_Step ==
    AlreadyVotedShown => ~IssuesLoginRequest /\ page' # "vote"

\* C17: once a has-voted check has put the already-voted error on the login
\* page, no step sends identity-verify, send-otp, verify-otp, create-session
\* or a has-voted check, and no step reaches the voting page.
C17_VotedIsTerminal == [][C17_Step]_vars

\* The mutating calls of the login flow that await their response:
\* identity-verify, send-otp, resend, verify-otp, create-session.
MutatingInFlight ==
    {k \in {"verify", "send", "resend"} :
        lcalls[k].pc \in {"verify", "sent"}}
    \cup (IF otpCall.pc \in {"otp", "create"} THEN {otpCall.pc} ELSE {})

\* C18: at most one mutating call of the login flow is in flight.
C18_OneMutatingCall == Cardinality(MutatingInFlight) <= 1

\* Back to Login was clicked while handleVerifyOTP awaits a response.
OtpFlowAbandoned ==
    /\ page = "login"
    /\ ~login.showOTPStep
    /\ otpCall.pc \in {"otp", "create", "status"}

C19_Step ==
    OtpFlowAbandoned =>
        /\ sessionStorage' = sessionStorage
        /\ page' = page
        /\ login'.sessionID = login.sessionID
        /\ login'.authToken = login.authToken

\* C19: after Back to Login, a response to the abandoned OTP submission
\* stores no session in sessionStorage or in the component and does not
\* navigate to the voting page.
C19_LateReplyInert == [][C19_Step]_vars

C20_Step ==
    page = "login" => \A i \in Calls : poll'[i].attempts = poll[i].attempts

\* C20: once the voting page is left, by Return to Home, logout or session
\* expiry, the receipt interval sends no further receipt request.
C20_NoPollAfterLeave == [][C20_Step]_vars

\* The page shows the message of a request answered 401.
UnauthorizedShown == st.error = "Invalid or expired session"

\* C21 (as claimed): after a logout, after a request was answered 401 and
\* after the session expired, sessionStorage holds no authToken and no
\* sessionID.
C21_SessionRemoved ==
    (exitCause \in {"logout", "expired"} \/ UnauthorizedShown)
    => /\ sessionStorage.authToken = Null
       /\ sessionStorage.sessionID = Null

\* The step is the session countdown's expiry action: the alert and the
\* navigation to the login page.
SessionExpiredFires == exitCause # "expired" /\ exitCause' = "expired"

\* The step is a tick of the OTP countdown.
OtpCountdownTicks == otpInterval # NoTime /\ now' # now /\ page = "login"

C22_Step ==
    /\ (st.voteSuccess \/ page # "vote") => ~SessionExpiredFires
    /\ (~login.showOTPStep /\ ~loginView.showOTPStep) => ~OtpCountdownTicks

\* C22 (as claimed): the session countdown fires no session-expired action
\* once the vote has been cast or the page has been left, and the OTP
\* countdown does not tick once the OTP step has been left.
C22_TimersCancelled == [][C22_Step]_vars

\* C23 (as claimed): while the voting page is mounted with a session the
\* login flow accepted, the session countdown is armed on an expiry, also
\* when the create-session reply held no expiresAt.
C23_CountdownRunning ==
    (page = "vote" /\ locationState = "session")
    => /\ timerOn
       /\ sessionExpiry # NoTime

\* The send-otp replies the page accepts.
AcceptedOtpResponses ==
    { res \in OtpResponses : res.status = 200 /\ res.success /\ res.data # <<>> }

\* C24 (as claimed): the OTP expiry the page holds is fixed by the server's
\* reply alone: whatever the client clock showed when the reply arrived, the
\* page would hold the same expiry; and the session expiry handed to the
\* voting page is the expiresAt of the create-session reply.
C24_ExpiryFromServer ==
    /\ login.otpExpiry # NoTime =>
          \A res \in AcceptedOtpResponses : \A t \in {0, ClockStep} :
              expiryTime(res, t) = login.otpExpiry
    /\ (page = "vote" /\ locationState = "session") =>
          sessionExpiry = otpCall.expiresAt

\* A reply to the signature request that reports success and holds no
\* blindSignature, neither flat nor under data.
SuccessWithoutSignature(res) ==
    /\ res.status = 200
    /\ res.body.success
    /\ res.body.blindSignature = <<>>
    /\ res.body.data # <<>> => res.body.data[1].blindSignature = <<>>

C25_Step ==
    \A i \in Calls :
        calls[i].pc = "sig" =>
            \A res \in SigResponses(calls[i].reqs[1].body.blindedVote) :
                (SuccessWithoutSignature(res) /\ handleVote_signature(i, res)) =>
                    /\ CastRequests' = CastRequests
                    /\ calls'[i].pc = "failed"
                    /\ st'.blindSignature = st.blindSignature
                    /\ st'.voteSuccess = st.voteSuccess
                    /\ page = "vote" =>
                        /\ st'.error # ""
                        /\ ~st'.isVoting /\ ~st'.isRequestingSignature
                        /\ \A r \in SigResponses(calls[i].reqs[1].body.blindedVote) :
                              SigReply(r) # "success" => ~handleVote_signature(i, r)

\* C25: a signature reply that reports success without a blindSignature
\* issues no cast-vote request and ends the submission with an error, and
\* what the page then shows differs from what it shows after any reply that
\* declines the request (success false, an error status, no response).
C25_MissingSignatureFatal == [][C25_Step]_vars

\* C25 witness: the first submission ended on a signature reply without the
\* signature; nothing was cast.
C25_Witness ==
    /\ page = "vote"
    /\ calls[1].pc = "failed"
    /\ st.error = "Backend error: Blind signature not returned"
    /\ st.blindSignature = <<>>
    /\ CastRequests = {}

\* A create-session reply that reports success and lacks sessionID or
\* authToken where the page reads them.
IncompleteSession(res) ==
    /\ res.status = 200
    /\ res.success
    /\ LET sessionData == IF res.data # <<>> THEN res.data[1] ELSE res.flat
       IN  sessionData.sessionID = <<>> \/ sessionData.authToken = <<>>

C26_Step ==
    otpCall.pc = "create" =>
        \A res \in SessionResponses :
            (IncompleteSession(res) /\ handleVerifyOTP_session(res)) =>
                /\ sessionStorage' = sessionStorage
                /\ page' = "login"
                /\ login'.sessionID = login.sessionID
                /\ login'.authToken = login.authToken
                /\ otpCall' = IdleOtpCall
                /\ login'.error # ""
                /\ ~login'.isLoading /\ ~login'.isCreatingSession
                /\ \A r \in SessionResponses :
                      ~(r.status = 200 /\ r.success) => ~handleVerifyOTP_session(r)
                /\ \A r \in VerifyOtpResponses :
                      ~(r.status = 200 /\ r.success) => login' # OtpRejected(login, r)

\* C26: a create-session reply that reports success without sessionID or
\* without authToken writes nothing to sessionStorage or to the component's
\* session cells, sends no further request and does not enter the voting
\* page, and what the login page then shows differs from what it shows after
\* a rejected OTP and after a declined or failed create-session.
C26_IncompleteSessionFatal == [][C26_Step]_vars

\* C26 witness: the login page after such a reply.
C26_Witness ==
    /\ page = "login"
    /\ otpCall.pc = "idle"
    /\ login.error = "Backend error: Session data incomplete. Check backend logs."
    /\ ~login.isLoading
    /\ sessionStorage.authToken = Null /\ sessionStorage.sessionID = Null

C27_Step ==
    \A i \in Calls : \A res \in ReceiptResponses :
        fetchReceipt_reply(i, res) =>
            /\ (res.status # 200 /\ poll[i].attempts < maxAttempts) =>
                  /\ st' = st
                  /\ poll'[i].active = poll[i].active
                  /\ ~poll'[i].timedOut
            /\ st'.error # st.error =>
                  /\ res.status # 200
                  /\ poll[i].attempts >= maxAttempts
                  /\ ~poll'[i].active
            /\ (res.status = 200 /\ res.success) =>
                  /\ ~poll'[i].active
                  /\ page = "vote" => st'.receipt # Null /\ ~st'.isPollingReceipt

\* C27: a receipt reply with an error (404, 401 or no response) that is
\* processed before attempts reached maxAttempts changes nothing on the page
\* and leaves the interval as it was; a reply changes the error shown only
\* when it is an error and attempts reached maxAttempts, and that stops the
\* interval; a successful reply stops the interval in the same step and
\* stores the receipt.
C27_PollingErrors == [][C27_Step]_vars

\* C27 witness: after errors on every attempt the poller gave up on the
\* attempt that reached maxAttempts, with no receipt.
C27_Witness ==
    /\ page = "vote"
    /\ poll[1].timedOut
    /\ poll[1].attempts = maxAttempts
    /\ ~poll[1].active
    /\ st.receipt = Null
    /\ ~st.isPollingReceipt
    /\ st.error = "Receipt not available. Your vote was recorded but receipt generation timed out."

\* A send-otp reply that reports success and holds expiryMinutes, flat or
\* under data.
HoldsExpiryMinutes(res) ==
    /\ res.status = 200
    /\ res.success
    /\ \/ res.expiryMinutes # <<>>
       \/ res.data # <<>> /\ res.data[1].expiryMinutes # <<>>

\* A create-session reply that reports success and holds sessionID and
\* authToken, flat or under data.
HoldsSession(res) ==
    /\ res.status = 200
    /\ res.success
    /\ \/ res.flat.sessionID # <<>> /\ res.flat.authToken # <<>>
       \/ res.data # <<>> /\ res.data[1].sessionID # <<>> /\ res.data[1].authToken # <<>>

C28_Step ==
    /\ \A res \in StatusResponses :
          (ReportsVoted(res) /\ handleVerifyIdentity_status(res)) =>
              /\ ~login'.showIdentityModal
              /\ login'.verifiedIdentity = <<>>
              /\ login'.error # ""
    /\ \A res \in StatusResponses :
          (ReportsVoted(res) /\ handleVerifyOTP_status(res)) =>
              /\ page' = "login"
              /\ login'.error # ""
    /\ \A res \in OtpResponses :
          (HoldsExpiryMinutes(res) /\ handleSendOTP_reply(res)) =>
              /\ login'.showOTPStep
              /\ login'.otpExpiry # NoTime
              /\ login'.error = login.error
    /\ \A res \in SessionResponses :
          (HoldsSession(res) /\ otpCall.identity # <<>> /\ handleVerifyOTP_session(res)) =>
              /\ otpCall'.sessionCreated
              /\ sessionStorage'.authToken = AuthToken
              /\ sessionStorage'.sessionID = SessionID

\* C28 (as claimed): a has-voted reply with hasVoted true, flat or under
\* data, blocks the login flow at the first and at the second check; a
\* send-otp reply with expiryMinutes, flat or under data, opens the OTP step;
\* a create-session reply with sessionID and authToken, flat or under data,
\* is accepted.
C28_FlatOrNested == [][C28_Step]_vars

\* C29 (as claimed): on the OTP step, with the countdown on screen showing
\* the time that remains, Resend OTP is disabled while more than 60 seconds
\* remain.
C29_ResendOnlyInLastMinute ==
    (page = "login" /\ loginView.showOTPStep /\ login.otpExpiry # NoTime
        /\ loginView = login /\ loginView.otpTimer = OtpRemaining
        /\ OtpRemaining > 60)
    => ~ResendAvailable

C30_Step ==
    /\ (lcalls.resend.pc = "idle" /\ lcalls'.resend.pc = "sent") => login'.otp = ""
    /\ \A res \in AcceptedOtpResponses :
          handleResendOTP_reply(res) =>
              /\ login'.otpExpiry = now + DefaultExpiryMinutes * 60
              /\ login'.otp = login.otp
              /\ lcalls'.resend.pc = "idle"
    /\ (login.otp = "" /\ login'.otp # "") => handleOTPChange

\* The rendered page with an OTP that has not expired runs its countdown on
\* the expiry it holds.
C30_CountdownFromExpiry ==
    (page = "login" /\ loginView = login /\ login.otpExpiry # NoTime
        /\ Remaining(login.otpExpiry, now) > 0)
    => otpInterval = login.otpExpiry

C31_Step ==
    \A res \in IdentityResponses(lcalls.verify.cred) :
        (~(res.status = 200 /\ res.success) /\ page = "login"
            /\ handleVerifyIdentity_verify(res)) =>
            /\ login'.verifiedIdentity = <<>>
            /\ ~(login'.showIdentityModal /\ login'.verifiedIdentity # <<>>)
            /\ ~login'.showOTPStep
            /\ lcalls'.verify = IdleCall
            /\ lcalls'.send = lcalls.send /\ lcalls'.resend = lcalls.resend
            /\ login'.error # ""
            /\ (res.status # 0 /\ res.message # <<>>) => login'.error = res.message[1]

\* C31 (as claimed): an identity-verify reply that fails (error status, no
\* response, success false) leaves verifiedIdentity null, the identity modal
\* and the OTP step hidden, sends no has-voted and no send-otp request, and
\* shows the server's message when the reply holds one.
C31_FailedIdentityKeepsState == [][C31_Step]_vars

\* handleVerifyIdentity sends identity-verify or its has-voted check.
OpensLoginFlow ==
    \/ lcalls.verify.pc = "idle" /\ lcalls'.verify.pc = "verify"
    \/ lcalls.verify.pc = "verify" /\ lcalls'.verify.pc = "status"

C32_Step == OpensLoginFlow => requestInterceptor(sessionStorage') = Null

\* C32 (as claimed): the requests that open a login flow, identity-verify and
\* the has-voted check before the OTP, are sent ahead of any session of that
\* flow and carry no bearer token, so never one an earlier flow stored.
C32_NoInheritedBearer == [][C32_Step]_vars

\* handleVerifyIdentity returned at one of its two validations.
ValidationErrors ==
    {"Please enter both Aadhaar and Voter ID", "Please select an election to proceed"}

RejectsForm ==
    /\ login'.error \in ValidationErrors
    /\ login'.error # login.error \/ lflow'.submits > lflow.submits

C33_Step ==
    /\ RejectsForm =>
          /\ loginView.cred = Null \/ loginView.selectedElection = Null
          /\ ~IssuesLoginRequest
          /\ UNCHANGED <<lcalls, otpCall, sessionStorage, page, locationState>>
          /\ login' = [login EXCEPT !.error = login'.error, !.verifiedIdentity = <<>>]
    /\ (lcalls.verify.pc = "idle" /\ lcalls'.verify.pc = "verify") =>
          /\ loginView.cred # Null /\ loginView.selectedElection # Null
          /\ lcalls'.verify.cred = loginView.cred
    /\ (otpCall.pc = "idle" /\ otpCall'.pc = "otp") =>
          /\ loginView.otp = OtpCode
          /\ otpCall'.reqs[1].body.otp = loginView.otp

\* Every verify-otp request holds the six digits.
C33_SixDigits ==
    \A k \in 1..Len(otpCall.reqs) :
        otpCall.reqs[k].url = "/identity/verify-otp" => otpCall.reqs[k].body.otp = OtpCode

ReceiptFound(i) == ~poll[i].active /\ ~poll[i].timedOut /\ poll[i].attempts > 0

C34_Step ==
    \A i \in Calls : \A res \in ReceiptResponses :
        fetchReceipt_reply(i, res) =>
            /\ poll[i].timedOut => st'.receipt = st.receipt
            /\ ReceiptFound(i) => ~poll'[i].timedOut /\ st'.error = st.error

\* C34 (as claimed): a polling run ends either with the receipt or with the
\* timeout error, and finally so: after the timeout error no reply of that
\* run sets a receipt, and after the receipt no reply of that run raises the
\* timeout error.
C34_OutcomeFinal == [][C34_Step]_vars

\* The has-voted check gave no answer: an error, or a body with success false.
CheckFailed(res) == res.status # 200 \/ ~res.success

C35_Step ==
    \A res \in StatusResponses :
        (CheckFailed(res) /\ page = "login" /\ handleVerifyIdentity_status(res)) =>
            /\ ~(login'.showIdentityModal /\ login'.verifiedIdentity # <<>>)
            /\ login'.verifiedIdentity = <<>>

\* C35 (as claimed): when the has-voted check made before the OTP fails with
\* an error or answers success false, the identity modal is not opened, so no
\* send-otp request can follow.
C35_NoOtpWithoutNegative == [][C35_Step]_vars

\* C36 (as claimed): while the voter is on the login page and no
\* handleVerifyOTP is running, sessionStorage holds no authToken: a run that
\* created a session and then stopped (final has-voted check positive or
\* failed, or proof generation failed) leaves no token behind.
C36_NoTokenWithoutEntry ==
    (page = "login" /\ otpCall.pc = "idle") => sessionStorage.authToken = Null

C37_Step ==
    \A i \in Calls : \A res \in CastResponses :
        (handleVote_cast(i, res) /\ st'.voteSuccess /\ ~st.voteSuccess) =>
            st'.selectedCandidate = calls[i].reqs[2].body.candidateId

\* C37 (as claimed): when a cast-vote reply sets voteSuccess, the candidate
\* the page holds as selected is the candidateId of the acknowledged payload.
C37_SelectionMatchesVote == [][C37_Step]_vars

\* The credential the verified identity in v was returned for.
VerifiedCred(v) == v.verifiedIdentity[1].name

C38_Step ==
    /\ \A k \in {"send", "resend"} :
          (IssuesSendOtp(k) /\ loginView.verifiedIdentity # <<>>) =>
              lcalls'[k].cred = VerifiedCred(loginView)
    /\ (otpCall.pc = "idle" /\ otpCall'.pc = "otp" /\ loginView.verifiedIdentity # <<>>) =>
          /\ otpCall'.cred = VerifiedCred(loginView)
          /\ otpCall'.reqs[1].body.aadhaar = VerifiedCred(loginView)

\* C38 (as claimed): the credential sent to send-otp, to its resend and to
\* verify-otp (and from there to create-session) is the one the identity on
\* the page was verified for.
C38_SameCredential == [][C38_Step]_vars

====
